---- MODULE Spec2Model ----
(***************************************************************************)
(* Model of functions/anonymise_mri.py (class Anonymisation): the record   *)
(* linkage ledger (self.mapping and its JSON file), the pseudonym rule,    *)
(* the tag scrub of one DICOM dataset and the Patient/Sequence/File        *)
(* traversal of anonymise().                                               *)
(*                                                                         *)
(* A Python dict is modelled as the sequence of its items in insertion     *)
(* order (dicts and json keep that order); Python's None as the integer    *)
(* None; a raised exception as a result record with ok = FALSE.            *)
(***************************************************************************)
EXTENDS Integers, Sequences, FiniteSets, TLC

\* ------------------------------------------------------------------ bounds
MaxEncounters == 2
MaxFields == 1
MaxRuns == 2
MaxVaried == 4
MaxTimes == 3

\* ------------------------------------------------------- program constants
IsfileRepeatTimes == 40
IsdirRepeatTimes == 40
ListdirRepeatTimes == 20
ReadRetryTimes == 50
WriteRetryTimes == 50
DumpRetryTimes == 20
ExceptionRepeatTimes == 10

None == -1

PatientIds == { "P1", "P2" }
Accessions == { "A1", "A2" }
StudyDates == { "20200101", "20200102" }
Folders == { "data" }

\* pydicom PersonName values: family and given component, each a sequence of
\* characters ("Smith^John", "Smith", "^John").
PersonNames ==
    { [family |-> <<"S", "m", "i", "t", "h">>, given |-> <<"J", "o", "h", "n">>],
      [family |-> <<"S", "m", "i", "t", "h">>, given |-> <<>>],
      [family |-> <<>>, given |-> <<"J", "o", "h", "n">>] }

RECURSIVE Chars(_)
Chars(s) == IF s = <<>> THEN "" ELSE Head(s) \o Chars(Tail(s))

\* str(patient_name): the components joined by "^"
PersonNameStr(n) ==
    IF n.given = <<>> THEN Chars(n.family)
    ELSE Chars(n.family) \o "^" \o Chars(n.given)

\* The (AccessionNumber, StudyDate) pairs of the studies in the source data.
Studies == { <<"A1", "20200101">>, <<"A2", "20200102">>, <<"A1", "20200102">> }

\* The patient_info dictionaries extract_key_info returns for the records of
\* the source data: every patient has every study under both usable names,
\* and one record whose family name is empty.
PatientInfos ==
    { i \in [PatientID : PatientIds, PatientName : PersonNames,
             AccessionNumber : Accessions, StudyDate : StudyDates,
             OriginalBaseFolder : Folders] :
        /\ <<i.AccessionNumber, i.StudyDate>> \in Studies
        /\ i.PatientName.family = <<>> =>
               <<i.AccessionNumber, i.StudyDate>> = <<"A1", "20200101">> }

\* ------------------------------------------------------- the DICOM dataset
replace_tags ==
    [t \in {"PatientBirthDate", "PatientID", "PatientAddress", "ReferringPhysicianName"}
       |-> IF t = "PatientBirthDate" THEN "00010101" ELSE "anonymised"]

delete_tags ==
    { "OtherPatientIDs", "OtherPatientNames", "OtherPatientIDsSequence",
      "IssuerOfPatientID", "InstitutionName", "InstitutionAddress",
      "PerformingPhysicianName", "PerformingPhysicianIdentificationSequence",
      "OperatorsName", "OperatorIdentificationSequence",
      "IssuerOfPatientIDQualifiersSequence", "ReferencedPatientPhotoSequence",
      "ResponsiblePerson", "ResponsiblePersonRole", "ResponsibleOrganization",
      "ReferringPhysicianIdentificationSequence",
      "ConsultingPhysicianIdentificationSequence", "PhysiciansOfRecord",
      "PhysiciansOfRecordIdentificationSequence", "NameOfPhysiciansReadingStudy",
      "PhysiciansReadingStudyIdentificationSequence", "PatientComments",
      "InstitutionalDepartmentName" }

\* The fields extract_key_info reads besides PatientName.
KeyTags == { "PatientID", "AccessionNumber", "StudyDate" }

\* Standard fields no rule of anonymise_dicom names.
OtherTags == { "Modality", "SeriesDescription" }

\* Private tags in tag order, and what pydicom does with each: "ok" can be
\* read and deleted; "unreadable" makes the walk of remove_private_tags raise
\* but can be deleted; "undeletable" raises on the walk and on del.
PrivateTags == <<"(0009,0010)", "(0019,0010)">>
PrivateKinds == { "ok", "unreadable", "undeletable" }

Absent == [kind |-> "absent"]
PN(n) == [kind |-> "PersonName", family |-> n.family, given |-> n.given]
Text(t) == [kind |-> "str", text |-> t]

\* A dataset: the value of PatientName, the standard fields present (tag ->
\* value) and the private fields present (tag -> kind).
Restrict(f, S) == [t \in S |-> f[t]]
Range(q) == { q[i] : i \in 1..Len(q) }

\* The subsets of S of at most n elements.
RECURSIVE SubsetsUpTo(_, _)
SubsetsUpTo(S, n) ==
    IF n = 0 THEN { {} }
    ELSE LET smaller == SubsetsUpTo(S, n - 1)
         IN  smaller \cup { x \cup {t} : x \in smaller, t \in S }

DatasetOf(name, id, accession, date) ==
    [PatientName |-> name,
     std |-> [t \in KeyTags |-> IF t = "PatientID" THEN id
                                ELSE IF t = "AccessionNumber" THEN accession ELSE date],
     private |-> <<>>]

\* The records a file can hold: the key fields present or not, at most
\* MaxFields of the optional standard fields, any private fields.
Datasets ==
    { [PatientName |-> name,
       std |-> [t \in key \cup extra |->
                   IF t = "PatientID" THEN "P1"
                   ELSE IF t = "AccessionNumber" THEN "A1"
                   ELSE IF t = "StudyDate" THEN "20200101" ELSE "original"],
       private |-> private] :
        name \in { PN(n) : n \in PersonNames } \cup { Absent },
        key \in SUBSET KeyTags,
        extra \in SubsetsUpTo((DOMAIN replace_tags \ KeyTags) \cup delete_tags
                                  \cup OtherTags, MaxFields),
        private \in UNION { [T -> PrivateKinds] : T \in SUBSET Range(PrivateTags) } }

NoDataset == [PatientName |-> Absent, std |-> <<>>, private |-> <<>>]

VARIABLES
    mapping,           \* self.mapping of the live instance
    source_directory,  \* basename of self.source_directory
    jsonFile,          \* the file at self.json_directory
    alive,             \* TRUE while an instance exists (its constructor returned)
    saving,            \* TRUE between open(..., 'w') and json.dump in save_json_mapping
    op,                \* the operation that ran last
    call,              \* the argument of the last call (add_to_mapping: patient_info)
    ret,               \* what the last call returned or raised
    source_record,     \* the record of the file pydicom.dcmread read last
    dataset,           \* the Dataset object dcmread returned, as it is now
    tree,              \* the directory tree at self.source_directory
    target,            \* the files under self.target_directory
    pc,                \* where anonymise() stands
    patients,          \* patient folders patient_directory_yield has yet to yield
    sequences,         \* sequence folders sequence_directory_yield has yet to yield
    files,             \* files dicom_directory_yield has yet to yield
    patient_directory, \* the patient folder being traversed
    sequence_directory,\* the sequence folder being traversed
    run,               \* how many processes have been started
    durable,           \* the mapping the last completed save_json_mapping wrote
    stopped,           \* how the process before this one ended ("" for the first)
    compress,          \* the argument of anonymise(compress)
    archives,          \* the zip files shutil.make_archive has written
    calls              \* how many times the last wrapper call invoked what it wraps

runVars == <<tree, target, pc, patients, sequences, files, patient_directory,
             sequence_directory, run, durable, stopped, compress, archives>>
vars == <<mapping, source_directory, jsonFile, alive, saving, op, call, ret,
          source_record, dataset, tree, target, pc, patients, sequences, files,
          patient_directory, sequence_directory, run, durable, stopped, compress,
          archives, calls>>

\* ------------------------------------------------------------ dict helpers
Keys(m) == { m[k].key : k \in 1..Len(m) }
Pos(m, id) == CHOOSE k \in 1..Len(m) : m[k].key = id
Entry(m, id) == m[Pos(m, id)]
Encounters(m) ==
    LET RECURSIVE Sum(_)
        Sum(k) == IF k = 0 THEN 0 ELSE Len(m[k].StudyDate) + Sum(k - 1)
    IN  Sum(Len(m))

\* ------------------------------------------------------------- the ledger
\* zip() stops at the shorter of its two lists.
ZipLen(a, b) == IF Len(a) < Len(b) THEN Len(a) ELSE Len(b)

exists_in_mapping_swapped(m, patient_info) ==
    /\ patient_info.PatientID \in Keys(m)
    /\ LET patient_values == Entry(m, patient_info.PatientID)
       IN  \E i \in 1..ZipLen(patient_values.AccessionNumber, patient_values.StudyDate) :
               /\ patient_values.AccessionNumber[i] = patient_info.StudyDate
               /\ patient_values.StudyDate[i] = patient_info.AccessionNumber

exists_in_mapping_any_position(m, patient_info) ==
    /\ patient_info.PatientID \in Keys(m)
    /\ LET patient_values == Entry(m, patient_info.PatientID)
       IN  /\ \E i \in 1..Len(patient_values.AccessionNumber) :
                  patient_values.AccessionNumber[i] = patient_info.AccessionNumber
           /\ \E j \in 1..Len(patient_values.StudyDate) :
                  patient_values.StudyDate[j] = patient_info.StudyDate

exists_in_mapping(m, patient_info) ==
    /\ patient_info.PatientID \in Keys(m)
    /\ LET patient_values == Entry(m, patient_info.PatientID)
       IN  \E i \in 1..ZipLen(patient_values.AccessionNumber, patient_values.StudyDate) :
               /\ patient_values.AccessionNumber[i] = patient_info.AccessionNumber
               /\ patient_values.StudyDate[i] = patient_info.StudyDate

initialise_mapping_entry_reset(m, patient_id) ==
    LET empty == [key |-> patient_id, PatientIndex |-> None, PatientName |-> <<>>,
                  NewPatientName |-> <<>>, AccessionNumber |-> <<>>,
                  StudyDate |-> <<>>, OriginalBaseFolder |-> <<>>]
    IN  IF patient_id \in Keys(m) THEN [m EXCEPT ![Pos(m, patient_id)] = empty]
        ELSE Append(m, empty)

initialise_mapping_entry_indexed(m, patient_id) ==
    IF patient_id \in Keys(m) THEN m
    ELSE Append(m, [key |-> patient_id, PatientIndex |-> Len(m) + 1,
                    PatientName |-> <<>>, NewPatientName |-> <<>>,
                    AccessionNumber |-> <<>>, StudyDate |-> <<>>,
                    OriginalBaseFolder |-> <<>>])

initialise_mapping_entry(m, patient_id) ==
    IF patient_id \in Keys(m) THEN m
    ELSE Append(m, [key |-> patient_id,
                    PatientIndex |-> None,
                    PatientName |-> <<>>,
                    NewPatientName |-> <<>>,
                    AccessionNumber |-> <<>>,
                    StudyDate |-> <<>>,
                    OriginalBaseFolder |-> <<>>])

get_patient_index_always_len(m, patient_info) == Len(m)

get_patient_index_zero_based(m, patient_info) ==
    IF Entry(m, patient_info.PatientID).PatientIndex # None
    THEN Entry(m, patient_info.PatientID).PatientIndex
    ELSE Len(m) - 1

get_patient_index(m, patient_info) ==
    IF Entry(m, patient_info.PatientID).PatientIndex # None
    THEN Entry(m, patient_info.PatientID).PatientIndex
    ELSE Len(m)

generate_new_patient_name_no_date(patient_name, patient_index, study_date) ==
    IF patient_name.family = <<>> THEN [ok |-> FALSE, value |-> "IndexError"]
    ELSE [ok |-> TRUE,
          value |-> (IF patient_name.given # <<>> THEN Head(patient_name.given) ELSE "")
                    \o Head(patient_name.family) \o ToString(patient_index)]

generate_new_patient_name_family_first(patient_name, patient_index, study_date) ==
    IF patient_name.family = <<>> THEN [ok |-> FALSE, value |-> "IndexError"]
    ELSE [ok |-> TRUE,
          value |-> Head(patient_name.family)
                    \o (IF patient_name.given # <<>> THEN Head(patient_name.given) ELSE "")
                    \o ToString(patient_index) \o "_" \o study_date]

generate_new_patient_name_given_alone(patient_name, patient_index, study_date) ==
    IF patient_name.given = <<>> /\ patient_name.family = <<>>
    THEN [ok |-> FALSE, value |-> "IndexError"]
    ELSE [ok |-> TRUE,
          value |-> (IF patient_name.given # <<>> THEN Head(patient_name.given) ELSE "")
                    \o (IF patient_name.family # <<>> THEN Head(patient_name.family) ELSE "")
                    \o ToString(patient_index) \o "_" \o study_date]

\* x[0] raises IndexError on an empty string; the except branch of the
\* function retries with the family name alone, and raises when that is empty.
generate_new_patient_name(patient_name, patient_index, study_date) ==
    IF patient_name.given # <<>> /\ patient_name.family # <<>>
    THEN [ok |-> TRUE,
          value |-> Head(patient_name.given) \o Head(patient_name.family)
                    \o ToString(patient_index) \o "_" \o study_date]
    ELSE IF patient_name.family # <<>>
    THEN [ok |-> TRUE,
          value |-> Head(patient_name.family)
                    \o ToString(patient_index) \o "_" \o study_date]
    ELSE [ok |-> FALSE, value |-> "IndexError"]

\* Lines 497-502 of add_to_mapping: fix the index and append one element to
\* each of the five lists of the patient's entry.
append_encounter_no_folder(m, patient_info, patient_index, new_patient_name) ==
    LET k == Pos(m, patient_info.PatientID)
        e == m[k]
    IN  [m EXCEPT ![k] =
            [key |-> e.key,
             PatientIndex |-> patient_index,
             PatientName |->
                 Append(e.PatientName, PersonNameStr(patient_info.PatientName)),
             NewPatientName |-> Append(e.NewPatientName, new_patient_name),
             AccessionNumber |-> Append(e.AccessionNumber, patient_info.AccessionNumber),
             StudyDate |-> Append(e.StudyDate, patient_info.StudyDate),
             OriginalBaseFolder |-> e.OriginalBaseFolder]]

append_encounter_newest_first(m, patient_info, patient_index, new_patient_name) ==
    LET k == Pos(m, patient_info.PatientID)
        e == m[k]
    IN  [m EXCEPT ![k] =
            [key |-> e.key,
             PatientIndex |-> patient_index,
             PatientName |->
                 <<PersonNameStr(patient_info.PatientName)>> \o e.PatientName,
             NewPatientName |-> <<new_patient_name>> \o e.NewPatientName,
             AccessionNumber |-> <<patient_info.AccessionNumber>> \o e.AccessionNumber,
             StudyDate |-> <<patient_info.StudyDate>> \o e.StudyDate,
             OriginalBaseFolder |->
                 <<patient_info.OriginalBaseFolder>> \o e.OriginalBaseFolder]]

append_encounter(m, patient_info, patient_index, new_patient_name) ==
    LET k == Pos(m, patient_info.PatientID)
        e == m[k]
    IN  [m EXCEPT ![k] =
            [key |-> e.key,
             PatientIndex |-> patient_index,
             PatientName |->
                 Append(e.PatientName, PersonNameStr(patient_info.PatientName)),
             NewPatientName |-> Append(e.NewPatientName, new_patient_name),
             AccessionNumber |-> Append(e.AccessionNumber, patient_info.AccessionNumber),
             StudyDate |-> Append(e.StudyDate, patient_info.StudyDate),
             OriginalBaseFolder |->
                 Append(e.OriginalBaseFolder, patient_info.OriginalBaseFolder)]]

\* add_to_mapping as a function of the mapping: the mapping it leaves and
\* what it returns (ok) or raises (~ok). The entry created by
\* initialise_mapping_entry stays when generate_new_patient_name raises.
add_to_mapping(m, patient_info) ==
    LET m1 == initialise_mapping_entry(m, patient_info.PatientID)
        patient_index == get_patient_index(m1, patient_info)
        new_patient_name ==
            generate_new_patient_name(patient_info.PatientName, patient_index,
                                      patient_info.StudyDate)
    IN  IF ~new_patient_name.ok
        THEN [mapping |-> m1, ok |-> FALSE, value |-> new_patient_name.value]
        ELSE IF exists_in_mapping(m1, patient_info)
        THEN [mapping |-> m1, ok |-> TRUE, value |-> new_patient_name.value]
        ELSE [mapping |-> append_encounter(m1, patient_info, patient_index,
                                           new_patient_name.value),
              ok |-> TRUE, value |-> new_patient_name.value]

NoCall == [PatientID |-> "", PatientName |-> [family |-> <<>>, given |-> <<>>],
           AccessionNumber |-> "", StudyDate |-> "", OriginalBaseFolder |-> ""]
NoRet == [ok |-> TRUE, value |-> ""]

\* --------------------------------------------------------------- the scrub
extract_key_info_no_sentinel(ds, base_folder) ==
    IF KeyTags \subseteq DOMAIN ds.std /\ ds.PatientName # Absent
    THEN [ok |-> TRUE, dataset |-> ds,
          patient_info |->
              [PatientID |-> ds.std["PatientID"],
               PatientName |-> [family |-> ds.PatientName.family,
                                given |-> ds.PatientName.given],
               AccessionNumber |-> ds.std["AccessionNumber"],
               StudyDate |-> ds.std["StudyDate"],
               OriginalBaseFolder |-> base_folder]]
    ELSE [ok |-> FALSE, dataset |-> ds, patient_info |-> <<>>]

\* dataset.data_element(key) is None for an absent field, and .value on it
\* raises AttributeError; only the read of PatientName is guarded.
extract_key_info(ds, base_folder) ==
    LET ds1 == IF ds.PatientName = Absent
               THEN [ds EXCEPT !.PatientName = PN([family |-> <<"Z">>, given |-> <<"Z">>])]
               ELSE ds
    IN  IF KeyTags \subseteq DOMAIN ds.std
        THEN [ok |-> TRUE, dataset |-> ds1,
              patient_info |->
                  [PatientID |-> ds.std["PatientID"],
                   PatientName |-> [family |-> ds1.PatientName.family,
                                    given |-> ds1.PatientName.given],
                   AccessionNumber |-> ds.std["AccessionNumber"],
                   StudyDate |-> ds.std["StudyDate"],
                   OriginalBaseFolder |-> base_folder]]
        ELSE [ok |-> FALSE,
              dataset |-> IF "PatientID" \in DOMAIN ds.std THEN ds1 ELSE ds,
              patient_info |-> <<>>]

\* Lines 536-540: set the field when present, add it otherwise.
replace_sensitive_tags_present_only(std) ==
    [t \in DOMAIN std |-> IF t \in DOMAIN replace_tags THEN replace_tags[t] ELSE std[t]]

replace_sensitive_tags(std) ==
    [t \in DOMAIN std \cup DOMAIN replace_tags |->
        IF t \in DOMAIN replace_tags THEN replace_tags[t] ELSE std[t]]

remove_optional_tags_keep_replaced(std) ==
    Restrict(std, DOMAIN std \cap DOMAIN replace_tags)

\* Lines 543-545.
remove_optional_tags(std) == Restrict(std, DOMAIN std \ delete_tags)

\* dataset.remove_private_tags(): walks the fields in tag order and deletes
\* the private ones; it raises at the first one it cannot read or delete and
\* leaves that one and the later ones in place.
remove_private_tags(private) ==
    LET bad == { i \in 1..Len(PrivateTags) :
                    PrivateTags[i] \in DOMAIN private /\ private[PrivateTags[i]] # "ok" }
        first == CHOOSE i \in bad : \A j \in bad : i <= j
    IN  IF bad = {} THEN [ok |-> TRUE, private |-> <<>>]
        ELSE [ok |-> FALSE,
              private |-> Restrict(private,
                             { PrivateTags[i] : i \in first..Len(PrivateTags) }
                                 \cap DOMAIN private)]

remove_all_private_tags_until_failure(private) == remove_private_tags(private).private

\* Lines 548-558: the fallback deletes the private fields one by one and
\* continues past those whose deletion raises.
remove_all_private_tags(private) ==
    LET r == remove_private_tags(private)
    IN  IF r.ok THEN r.private
        ELSE Restrict(r.private, { t \in DOMAIN r.private : r.private[t] = "undeletable" })

anonymise_dicom_name_kept(m, ds, base_folder) ==
    LET k == extract_key_info(ds, base_folder)
        a == add_to_mapping(m, k.patient_info)
    IN  IF ~k.ok
        THEN [ok |-> FALSE, mapping |-> m, dataset |-> k.dataset,
              patient_info |-> NoCall, value |-> "AttributeError"]
        ELSE IF ~a.ok
        THEN [ok |-> FALSE, mapping |-> a.mapping, dataset |-> k.dataset,
              patient_info |-> k.patient_info, value |-> a.value]
        ELSE [ok |-> TRUE, mapping |-> a.mapping,
              dataset |->
                  [PatientName |-> k.dataset.PatientName,
                   std |-> remove_optional_tags(replace_sensitive_tags(k.dataset.std)),
                   private |-> remove_all_private_tags(k.dataset.private)],
              patient_info |-> k.patient_info, value |-> a.value]

\* anonymise_dicom as a function of the mapping and the dataset: what it
\* leaves of both, and the name it returns (ok) or that it raised (~ok).
anonymise_dicom(m, ds, base_folder) ==
    LET k == extract_key_info(ds, base_folder)
        a == add_to_mapping(m, k.patient_info)
    IN  IF ~k.ok
        THEN [ok |-> FALSE, mapping |-> m, dataset |-> k.dataset,
              patient_info |-> NoCall, value |-> "AttributeError"]
        ELSE IF ~a.ok
        THEN [ok |-> FALSE, mapping |-> a.mapping, dataset |-> k.dataset,
              patient_info |-> k.patient_info, value |-> a.value]
        ELSE [ok |-> TRUE, mapping |-> a.mapping,
              dataset |->
                  [PatientName |-> Text(a.value),
                   std |-> remove_optional_tags(replace_sensitive_tags(k.dataset.std)),
                   private |-> remove_all_private_tags(k.dataset.private)],
              patient_info |-> k.patient_info, value |-> a.value]

\* ------------------------------------------------------------ persistence
\* json.dump / json.load of the mapping: None <-> null, int <-> decimal digits.
JsonNumber_null_as_zero(i) == IF i = None THEN "0" ELSE ToString(i)
JsonNumber(i) == IF i = None THEN "null" ELSE ToString(i)
ParseJsonNumber(s) ==
    IF s = "null" THEN None
    ELSE CHOOSE i \in 0..(Cardinality(PatientIds) + 1) : ToString(i) = s

JsonDump(m) ==
    [k \in 1..Len(m) |->
        [name |-> m[k].key,
         PatientIndex |-> JsonNumber(m[k].PatientIndex),
         PatientName |-> m[k].PatientName,
         NewPatientName |-> m[k].NewPatientName,
         AccessionNumber |-> m[k].AccessionNumber,
         StudyDate |-> m[k].StudyDate,
         OriginalBaseFolder |-> m[k].OriginalBaseFolder]]

JsonLoad_renumbered(text) ==
    [k \in 1..Len(text) |->
        [key |-> text[k].name,
         PatientIndex |-> k - 1,
         PatientName |-> text[k].PatientName,
         NewPatientName |-> text[k].NewPatientName,
         AccessionNumber |-> text[k].AccessionNumber,
         StudyDate |-> text[k].StudyDate,
         OriginalBaseFolder |-> text[k].OriginalBaseFolder]]

JsonLoad(text) ==
    [k \in 1..Len(text) |->
        [key |-> text[k].name,
         PatientIndex |-> ParseJsonNumber(text[k].PatientIndex),
         PatientName |-> text[k].PatientName,
         NewPatientName |-> text[k].NewPatientName,
         AccessionNumber |-> text[k].AccessionNumber,
         StudyDate |-> text[k].StudyDate,
         OriginalBaseFolder |-> text[k].OriginalBaseFolder]]

NoFile == [exists |-> FALSE, complete |-> FALSE, text |-> <<>>]

\* os.path.isfile probed repeat_times times, the answers OR-ed. probes[i] is
\* what probe i answers for a file that exists (FALSE: a transient false
\* negative); a file that does not exist is never seen.
RECURSIVE isfile_loop_last_answer(_, _, _, _)
isfile_loop_last_answer(exists, probes, i, value) ==
    IF i > IsfileRepeatTimes THEN value
    ELSE isfile_loop_last_answer(exists, probes, i + 1, exists /\ probes[i])

RECURSIVE isfile_loop(_, _, _, _)
isfile_loop(exists, probes, i, value) ==
    IF i > IsfileRepeatTimes THEN value
    ELSE isfile_loop(exists, probes, i + 1, value \/ (exists /\ probes[i]))

isfile(exists, probes) == isfile_loop(exists, probes, 1, FALSE)

\* The probe patterns of the storage medium: every probe answers, only the
\* last one does, none does.
ProbePatterns ==
    { [i \in 1..IsfileRepeatTimes |-> TRUE],
      [i \in 1..IsfileRepeatTimes |-> i = IsfileRepeatTimes],
      [i \in 1..IsfileRepeatTimes |-> FALSE] }

\* The patterns under which a file that exists is seen.
SeenPatterns == { p \in ProbePatterns : \E i \in 1..IsfileRepeatTimes : p[i] }

\* load_json_mapping on an instance whose mapping is {}: the mapping it
\* leaves, or the JSONDecodeError of json.load on a file cut short.
load_json_mapping(file, probes) ==
    IF ~isfile(file.exists, probes) THEN [ok |-> TRUE, mapping |-> <<>>, read |-> FALSE]
    ELSE IF ~file.complete THEN [ok |-> FALSE, mapping |-> <<>>, read |-> FALSE]
    ELSE [ok |-> TRUE, mapping |-> JsonLoad(file.text), read |-> TRUE]

\* ------------------------------------------------------------------ state
\* The state after Anonymisation(json, source, target) where no ledger file
\* exists yet.
Init ==
    /\ mapping = <<>>
    /\ source_directory \in Folders
    /\ jsonFile = NoFile
    /\ alive = TRUE
    /\ saving = FALSE
    /\ op = "init"
    /\ call = NoCall
    /\ ret = NoRet
    /\ source_record = NoDataset
    /\ dataset = NoDataset
    /\ tree = <<>>
    /\ target = {}
    /\ pc = "idle"
    /\ patients = <<>>
    /\ sequences = <<>>
    /\ files = <<>>
    /\ patient_directory = ""
    /\ sequence_directory = ""
    /\ run = 1
    /\ durable = <<>>
    /\ stopped = ""
    /\ compress = FALSE
    /\ archives = {}
    /\ calls = 0

\* --------------------------------------------------------------- actions
\* One call of add_to_mapping with the patient_info of some record read
\* under the instance's source directory.
AddToMapping(patient_info) ==
    /\ alive /\ ~saving
    /\ patient_info.OriginalBaseFolder = source_directory
    /\ LET r == add_to_mapping(mapping, patient_info)
       IN  /\ Encounters(r.mapping) <= MaxEncounters
           /\ mapping' = r.mapping
           /\ ret' = [ok |-> r.ok, value |-> r.value]
    /\ call' = patient_info
    /\ op' = "add_to_mapping"
    /\ UNCHANGED <<source_directory, jsonFile, alive, saving, source_record, dataset>>
    /\ UNCHANGED runVars
    /\ UNCHANGED calls

\* save_json_mapping, first half: open(self.json_directory, 'w') creates or
\* truncates the file.
SaveOpen ==
    /\ alive /\ ~saving
    /\ jsonFile' = [exists |-> TRUE, complete |-> FALSE, text |-> <<>>]
    /\ saving' = TRUE
    /\ op' = "open"
    /\ call' = NoCall
    /\ ret' = NoRet
    /\ UNCHANGED <<mapping, source_directory, alive, source_record, dataset>>
    /\ UNCHANGED runVars
    /\ UNCHANGED calls

\* save_json_mapping, second half: json.dump writes the mapping and the
\* with block closes the file.
SaveDump ==
    /\ alive /\ saving
    /\ jsonFile' = [exists |-> TRUE, complete |-> TRUE, text |-> JsonDump(mapping)]
    /\ saving' = FALSE
    /\ op' = "save"
    /\ call' = NoCall
    /\ ret' = NoRet
    /\ UNCHANGED <<mapping, source_directory, alive, source_record, dataset>>
    /\ UNCHANGED runVars
    /\ UNCHANGED calls

\* The process ends (normally, or killed at this point) and a new one
\* constructs Anonymisation: mapping = {} followed by load_json_mapping.
NewInstance(folder, probes) ==
    /\ LET r == load_json_mapping(jsonFile, probes)
       IN  /\ mapping' = r.mapping
           /\ alive' = r.ok
           /\ op' = IF ~r.ok THEN "load_failed"
                    ELSE IF r.read THEN "load" ELSE "load_nofile"
    /\ source_directory' = folder
    /\ saving' = FALSE
    /\ call' = NoCall
    /\ ret' = NoRet
    /\ UNCHANGED <<jsonFile, source_record, dataset>>
    /\ UNCHANGED runVars
    /\ UNCHANGED calls

Next ==
    \/ \E patient_info \in PatientInfos : AddToMapping(patient_info)
    \/ SaveOpen
    \/ SaveDump
    \/ \E folder \in Folders, probes \in SeenPatterns : NewInstance(folder, probes)

Spec == Init /\ [][Next]_vars

\* ------------------------------------------------ one dataset through the scrub
\* A fresh instance has read one record of the source data.
InitScrub ==
    /\ mapping = <<>>
    /\ source_directory \in Folders
    /\ jsonFile = NoFile
    /\ alive = TRUE
    /\ saving = FALSE
    /\ op = "dcmread"
    /\ call = NoCall
    /\ ret = NoRet
    /\ source_record \in Datasets
    /\ dataset = source_record
    /\ tree = <<>>
    /\ target = {}
    /\ pc = "idle"
    /\ patients = <<>>
    /\ sequences = <<>>
    /\ files = <<>>
    /\ patient_directory = ""
    /\ sequence_directory = ""
    /\ run = 1
    /\ durable = <<>>
    /\ stopped = ""
    /\ compress = FALSE
    /\ archives = {}
    /\ calls = 0

\* anonymise_dicom(dataset) returns the dataset and its new name.
AnonymiseDicomReturns ==
    /\ op = "dcmread"
    /\ LET r == anonymise_dicom(mapping, dataset, source_directory)
       IN  /\ r.ok
           /\ mapping' = r.mapping
           /\ dataset' = r.dataset
           /\ call' = r.patient_info
           /\ ret' = [ok |-> TRUE, value |-> r.value]
    /\ op' = "anonymise_dicom"
    /\ UNCHANGED <<source_directory, jsonFile, alive, saving, source_record>>
    /\ UNCHANGED runVars
    /\ UNCHANGED calls

\* anonymise_dicom(dataset) raises: a key field is missing, or the family
\* name is empty.
AnonymiseDicomRaises ==
    /\ op = "dcmread"
    /\ LET r == anonymise_dicom(mapping, dataset, source_directory)
       IN  /\ ~r.ok
           /\ mapping' = r.mapping
           /\ dataset' = r.dataset
           /\ call' = r.patient_info
           /\ ret' = [ok |-> FALSE, value |-> r.value]
    /\ op' = "anonymise_dicom_raised"
    /\ UNCHANGED <<source_directory, jsonFile, alive, saving, source_record>>
    /\ UNCHANGED runVars
    /\ UNCHANGED calls

NextScrub == AnonymiseDicomReturns \/ AnonymiseDicomRaises

SpecScrub == InitScrub /\ [][NextScrub]_vars

\* ------------------------------------------------------------ retrying I/O
\* retry_function(times, function): attempts[i] is what call i of function
\* does, [ok |-> TRUE, value |-> result] or [ok |-> FALSE, value |-> exception].
RECURSIVE try_function(_, _, _, _)
try_function(times, attempts, i, e) ==
    IF i > times THEN [ok |-> FALSE, value |-> e]
    ELSE IF attempts[i].ok THEN attempts[i]
    ELSE try_function(times, attempts, i + 1, attempts[i].value)

retry_function_one_more(times, attempts) ==
    try_function(times + 1, attempts, 1, "Retry Exception Failed.")

retry_function(times, attempts) ==
    try_function(times, attempts, 1, "Retry Exception Failed.")

\* How many times try_function calls function: every pass of the loop calls
\* it once, and the loop is left at the first call that returns.
RECURSIVE try_function_calls_one_more(_, _, _)
try_function_calls_one_more(times, attempts, i) ==
    IF i > times + 1 THEN 0
    ELSE IF attempts[i].ok THEN 1
    ELSE 1 + try_function_calls_one_more(times, attempts, i + 1)

RECURSIVE try_function_calls_after_success(_, _, _)
try_function_calls_after_success(times, attempts, i) ==
    IF i > times THEN 0
    ELSE 1 + try_function_calls_after_success(times, attempts, i + 1)

RECURSIVE try_function_calls(_, _, _)
try_function_calls(times, attempts, i) ==
    IF i > times THEN 0
    ELSE IF attempts[i].ok THEN 1
    ELSE 1 + try_function_calls(times, attempts, i + 1)

retry_function_calls(times, attempts) == try_function_calls(times, attempts, 1)

\* listdir: attempts[i] is what the i-th retry_function(10, os.listdir) call
\* returns or raises.
RECURSIVE listdir_loop_last(_, _, _, _)
listdir_loop_last(attempts, i, max_size, selected_list) ==
    IF i > ListdirRepeatTimes THEN selected_list
    ELSE IF attempts[i].ok
    THEN listdir_loop_last(attempts, i + 1, Len(attempts[i].value), attempts[i].value)
    ELSE listdir_loop_last(attempts, i + 1, max_size, selected_list)

RECURSIVE listdir_loop_latest_tie(_, _, _, _)
listdir_loop_latest_tie(attempts, i, max_size, selected_list) ==
    IF i > ListdirRepeatTimes THEN selected_list
    ELSE IF attempts[i].ok /\ max_size <= Len(attempts[i].value)
    THEN listdir_loop_latest_tie(attempts, i + 1, Len(attempts[i].value), attempts[i].value)
    ELSE listdir_loop_latest_tie(attempts, i + 1, max_size, selected_list)

RECURSIVE listdir_loop(_, _, _, _)
listdir_loop(attempts, i, max_size, selected_list) ==
    IF i > ListdirRepeatTimes THEN selected_list
    ELSE IF attempts[i].ok /\ max_size < Len(attempts[i].value)
    THEN listdir_loop(attempts, i + 1, Len(attempts[i].value), attempts[i].value)
    ELSE listdir_loop(attempts, i + 1, max_size, selected_list)

listdir(attempts) == listdir_loop(attempts, 1, -1, <<>>)

\* What the repeat_times passes of listdir get from
\* retry_function(exception_repeat_times, os.listdir), and how many times
\* os.listdir is called in all; tries[i][j] is what call j of pass i does.
listdir_attempts(tries) ==
    [i \in 1..ListdirRepeatTimes |-> retry_function(ExceptionRepeatTimes, tries[i])]

RECURSIVE listdir_calls(_, _)
listdir_calls(tries, i) ==
    IF i > ListdirRepeatTimes THEN 0
    ELSE retry_function_calls(ExceptionRepeatTimes, tries[i]) + listdir_calls(tries, i + 1)

\* isdir: value = value or os.path.isdir(directory), repeat_times times.
RECURSIVE isdir_loop_and(_, _, _, _)
isdir_loop_and(exists, probes, i, value) ==
    IF i > IsdirRepeatTimes THEN value
    ELSE isdir_loop_and(exists, probes, i + 1,
                        (i = 1 \/ value) /\ (exists /\ probes[i]))

RECURSIVE isdir_loop(_, _, _, _)
isdir_loop(exists, probes, i, value) ==
    IF i > IsdirRepeatTimes THEN value
    ELSE isdir_loop(exists, probes, i + 1, value \/ (exists /\ probes[i]))

isdir(exists, probes) == isdir_loop(exists, probes, 1, FALSE)

\* How many times os.path.isdir / os.path.isfile is called: `value or ...`
\* does not evaluate its right side once value is True.
RECURSIVE isdir_probes(_, _, _, _)
isdir_probes(exists, probes, i, value) ==
    IF i > IsdirRepeatTimes THEN 0
    ELSE (IF value THEN 0 ELSE 1)
            + isdir_probes(exists, probes, i + 1, value \/ (exists /\ probes[i]))

RECURSIVE isfile_probes(_, _, _, _)
isfile_probes(exists, probes, i, value) ==
    IF i > IsfileRepeatTimes THEN 0
    ELSE (IF value THEN 0 ELSE 1)
            + isfile_probes(exists, probes, i + 1, value \/ (exists /\ probes[i]))

\* What the calls of one read or write do: all succeed, only the last one
\* does, none does.
Attempts(times, result) ==
    { [i \in 1..times |-> [ok |-> TRUE, value |-> result]],
      [i \in 1..times |-> IF i = times THEN [ok |-> TRUE, value |-> result]
                          ELSE [ok |-> FALSE, value |-> "OSError"]],
      [i \in 1..times |-> [ok |-> FALSE, value |-> "OSError"]] }

\* ------------------------------------------------------- the source tree
Dir(name, entries) ==
    [name |-> name, kind |-> "dir", dcm |-> FALSE, entries |-> entries,
     record |-> NoDataset]
File(name, dcm, record) ==
    [name |-> name, kind |-> "file", dcm |-> dcm, entries |-> <<>>, record |-> record]

JohnSmith == [family |-> <<"S", "m", "i", "t", "h">>, given |-> <<"J", "o", "h", "n">>]
Smith == [family |-> <<"S", "m", "i", "t", "h">>, given |-> <<>>]
NoFamily == [family |-> <<>>, given |-> <<"J", "o", "h", "n">>]

\* source/patA/T1/{a.dcm, b.dcm}, source/patA/T2/a.dcm,
\* source/patB/T1/{a.dcm, notes.txt} and a plain file source/readme.txt; in
\* the second tree the record of patB has no family name.
SourceTree(nameB) ==
    << Dir("patA",
           << Dir("T1",
                  << File("a.dcm", TRUE, DatasetOf(PN(JohnSmith), "P1", "A1", "20200101")),
                     File("b.dcm", TRUE, DatasetOf(PN(JohnSmith), "P1", "A1", "20200101"))
                  >>),
              Dir("T2",
                  << File("a.dcm", TRUE, DatasetOf(PN(JohnSmith), "P1", "A2", "20200102"))
                  >>) >>),
       Dir("patB",
           << Dir("T1",
                  << File("a.dcm", TRUE, DatasetOf(PN(nameB), "P2", "A1", "20200101")),
                     File("notes.txt", FALSE, NoDataset) >>) >>),
       File("readme.txt", FALSE, NoDataset) >>

SourceTrees == { SourceTree(Smith), SourceTree(NoFamily) }

Child(entries, name) == entries[CHOOSE i \in 1..Len(entries) : entries[i].name = name]

\* The listings a directory can give: its entries in order, some of them
\* possibly missing (a listing cut short on every attempt).
RECURSIVE SubListings(_)
SubListings(entries) ==
    IF entries = <<>> THEN { <<>> }
    ELSE LET rest == SubListings(Tail(entries))
         IN  rest \cup { <<Head(entries).name>> \o l : l \in rest }

\* listdir(directory) when every attempt lists `listing`.
Listed(listing) ==
    listdir([i \in 1..ListdirRepeatTimes |->
                retry_function(ExceptionRepeatTimes,
                               [j \in 1..ExceptionRepeatTimes |->
                                   [ok |-> TRUE, value |-> listing]])])

\* The test each generator applies to a listed name: isdir for folders,
\* isfile and endswith('.dcm') for DICOM files.
Yields(x, want) ==
    IF want = "dir" THEN \E probes \in SeenPatterns : isdir(x.kind = "dir", probes)
    ELSE (\E probes \in SeenPatterns : isfile(x.kind = "file", probes)) /\ x.dcm

RECURSIVE Select(_, _, _)
Select(entries, names, want) ==
    IF names = <<>> THEN <<>>
    ELSE IF Yields(Child(entries, Head(names)), want)
         THEN <<Head(names)>> \o Select(entries, Tail(names), want)
         ELSE Select(entries, Tail(names), want)

\* patient_directory_yield and sequence_directory_yield: the folders of a
\* listing; dicom_directory_yield: its files that end with '.dcm'.
directory_yield(entries, listing) == Select(entries, Listed(listing), "dir")
dicom_directory_yield(entries, listing) == Select(entries, Listed(listing), "dcm")

\* ------------------------------------------------------------ anonymise()
SequenceEntries == Child(Child(tree, patient_directory).entries, sequence_directory).entries
CurrentFile == Child(SequenceEntries, Head(files))
CurrentSource == patient_directory \o "/" \o sequence_directory \o "/" \o Head(files)

TargetPath_without_sequence(new_name, sequence_name, file) ==
    new_name \o "/" \o file

\* os.path.join(new_name, sequence_name + '_' + basename(dicom_file)) under
\* the target directory.
TargetPath(new_name, sequence_name, file) ==
    new_name \o "/" \o sequence_name \o "_" \o file

save_as_alone(t, path, new_name, from) ==
    { [path |-> path, PatientName |-> new_name, src |-> from] }

\* dataset.save_as(path): creates the file or replaces the one at that path.
save_as(t, path, new_name, from) ==
    { x \in t : x.path # path }
        \cup { [path |-> path, PatientName |-> new_name, src |-> from] }

\* The first process: no ledger file, an empty target, one of the trees.
InitRun ==
    /\ mapping = <<>>
    /\ source_directory \in Folders
    /\ jsonFile = NoFile
    /\ alive = TRUE
    /\ saving = FALSE
    /\ op = "init"
    /\ call = NoCall
    /\ ret = NoRet
    /\ source_record = NoDataset
    /\ dataset = NoDataset
    /\ tree \in SourceTrees
    /\ target = {}
    /\ pc = "start"
    /\ patients = <<>>
    /\ sequences = <<>>
    /\ files = <<>>
    /\ patient_directory = ""
    /\ sequence_directory = ""
    /\ run = 1
    /\ durable = <<>>
    /\ stopped = ""
    /\ compress = FALSE
    /\ archives = {}
    /\ calls = 0

\* anonymise() starts: patient_directory_yield lists the source directory.
StartAnonymise ==
    /\ pc = "start"
    /\ \E listing \in SubListings(tree) : patients' = directory_yield(tree, listing)
    /\ pc' = "traverse"
    /\ op' = "anonymise"
    /\ UNCHANGED <<mapping, source_directory, jsonFile, alive, saving, call, ret,
                   source_record, dataset, tree, target, sequences, files,
                   patient_directory, sequence_directory, run, durable>>
    /\ UNCHANGED <<stopped, compress, archives, calls>>

NextPatient_again ==
    /\ pc = "traverse" /\ patient_directory = "" /\ patients # <<>>
    /\ patient_directory' = Head(patients)
    /\ patients' = patients
    /\ \E listing \in SubListings(Child(tree, Head(patients)).entries) :
          sequences' = directory_yield(Child(tree, Head(patients)).entries, listing)
    /\ call' = NoCall
    /\ ret' = NoRet
    /\ op' = "patient"
    /\ UNCHANGED <<mapping, source_directory, jsonFile, alive, saving, source_record,
                   dataset, tree, target, pc, files, sequence_directory, run, durable>>
    /\ UNCHANGED <<stopped, compress, archives, calls>>

\* The outer loop takes the next patient folder: new_name = None, and
\* sequence_directory_yield lists the folder.
NextPatient ==
    /\ pc = "traverse" /\ patient_directory = "" /\ patients # <<>>
    /\ patient_directory' = Head(patients)
    /\ patients' = Tail(patients)
    /\ \E listing \in SubListings(Child(tree, Head(patients)).entries) :
          sequences' = directory_yield(Child(tree, Head(patients)).entries, listing)
    /\ call' = NoCall
    /\ ret' = NoRet
    /\ op' = "patient"
    /\ UNCHANGED <<mapping, source_directory, jsonFile, alive, saving, source_record,
                   dataset, tree, target, pc, files, sequence_directory, run, durable>>
    /\ UNCHANGED <<stopped, compress, archives, calls>>

\* The middle loop takes the next sequence folder and dicom_directory_yield
\* lists it.
NextSequence ==
    /\ pc = "traverse" /\ patient_directory # "" /\ files = <<>> /\ sequences # <<>>
    /\ sequence_directory' = Head(sequences)
    /\ sequences' = Tail(sequences)
    /\ LET entries == Child(Child(tree, patient_directory).entries, Head(sequences)).entries
       IN  \E listing \in SubListings(entries) :
              files' = dicom_directory_yield(entries, listing)
    /\ op' = "sequence"
    /\ UNCHANGED <<mapping, source_directory, jsonFile, alive, saving, call, ret,
                   source_record, dataset, tree, target, pc, patients,
                   patient_directory, run, durable>>
    /\ UNCHANGED <<stopped, compress, archives, calls>>

\* Lines 587-592 for one file: read, anonymise_dicom, makedirs, save_as.
FileAnonymised ==
    /\ pc = "traverse" /\ files # <<>>
    /\ \E reads \in Attempts(ReadRetryTimes, CurrentFile.record),
          writes \in Attempts(WriteRetryTimes, "written") :
          LET read == retry_function(ReadRetryTimes, reads)
              r == anonymise_dicom(mapping, read.value, source_directory)
              write == retry_function(WriteRetryTimes, writes)
          IN  /\ read.ok /\ r.ok /\ write.ok
              /\ mapping' = r.mapping
              /\ call' = r.patient_info
              /\ ret' = [ok |-> TRUE, value |-> r.value]
              /\ target' = save_as(target,
                                   TargetPath(r.value, sequence_directory, Head(files)),
                                   r.value, CurrentSource)
    /\ files' = Tail(files)
    /\ op' = "save_as"
    /\ UNCHANGED <<source_directory, jsonFile, alive, saving, source_record, dataset,
                   tree, pc, patients, sequences, patient_directory,
                   sequence_directory, run, durable>>
    /\ UNCHANGED <<stopped, compress, archives, calls>>

\* Every attempt of dcmread raised: the last exception leaves anonymise().
FileReadFails ==
    /\ pc = "traverse" /\ files # <<>>
    /\ \E reads \in Attempts(ReadRetryTimes, CurrentFile.record) :
          ~retry_function(ReadRetryTimes, reads).ok
    /\ pc' = "failed"
    /\ op' = "dcmread_raised"
    /\ UNCHANGED <<mapping, source_directory, jsonFile, alive, saving, call, ret,
                   source_record, dataset, tree, target, patients, sequences, files,
                   patient_directory, sequence_directory, run, durable>>
    /\ UNCHANGED <<stopped, compress, archives, calls>>

\* anonymise_dicom raised; what add_to_mapping did to the mapping stays.
FileScrubRaises ==
    /\ pc = "traverse" /\ files # <<>>
    /\ \E reads \in Attempts(ReadRetryTimes, CurrentFile.record) :
          LET read == retry_function(ReadRetryTimes, reads)
              r == anonymise_dicom(mapping, read.value, source_directory)
          IN  /\ read.ok /\ ~r.ok
              /\ mapping' = r.mapping
              /\ call' = r.patient_info
              /\ ret' = [ok |-> FALSE, value |-> r.value]
    /\ pc' = "failed"
    /\ op' = "anonymise_dicom_raised"
    /\ UNCHANGED <<source_directory, jsonFile, alive, saving, source_record, dataset,
                   tree, target, patients, sequences, files, patient_directory,
                   sequence_directory, run, durable>>
    /\ UNCHANGED <<stopped, compress, archives, calls>>

\* Every attempt of save_as raised, after the record was added to the mapping.
FileWriteFails ==
    /\ pc = "traverse" /\ files # <<>>
    /\ \E reads \in Attempts(ReadRetryTimes, CurrentFile.record),
          writes \in Attempts(WriteRetryTimes, "written") :
          LET read == retry_function(ReadRetryTimes, reads)
              r == anonymise_dicom(mapping, read.value, source_directory)
          IN  /\ read.ok /\ r.ok /\ ~retry_function(WriteRetryTimes, writes).ok
              /\ mapping' = r.mapping
              /\ call' = r.patient_info
              /\ ret' = [ok |-> TRUE, value |-> r.value]
    /\ pc' = "failed"
    /\ op' = "save_as_raised"
    /\ UNCHANGED <<source_directory, jsonFile, alive, saving, source_record, dataset,
                   tree, target, patients, sequences, files, patient_directory,
                   sequence_directory, run, durable>>
    /\ UNCHANGED <<stopped, compress, archives, calls>>

PatientSaveOpen_after_each_file ==
    /\ pc = "traverse" /\ patient_directory # "" /\ op = "save_as"
    /\ jsonFile' = [exists |-> TRUE, complete |-> FALSE, text |-> <<>>]
    /\ saving' = TRUE
    /\ pc' = "dump"
    /\ op' = "open"
    /\ UNCHANGED <<mapping, source_directory, alive, call, ret, source_record, dataset,
                   tree, target, patients, sequences, files, patient_directory,
                   sequence_directory, run, durable>>
    /\ UNCHANGED <<stopped, compress, archives, calls>>

\* new_name after the loops over the patient folder: still None, as line 581
\* set it, when no file of the folder was processed (ret is then NoRet), else
\* what anonymise_dicom returned for the last file (ret holds it).
new_name_is_None == ret = NoRet
new_name == ret.value

\* shutil.make_archive(new_name, 'zip', <target>/new_name, <target>/new_name):
\* the file new_name.zip, written in the working directory, holds what the
\* directory <target>/new_name holds; an archive of that name is replaced.
make_archive(zips, base_name, t) ==
    { z \in zips : z.name # base_name \o ".zip" }
        \cup { [name |-> base_name \o ".zip",
                files |-> { x.path : x \in { y \in t : y.PatientName = base_name } }] }

\* shutil.rmtree(<target>/directory)
rmtree(t, directory) == { x \in t : x.PatientName # directory }

\* The patient folder is finished. With compress, the directory of the last
\* pseudonym is archived and removed (lines 595-598). Then save_json_mapping
\* opens the ledger file for writing, which empties it.
PatientSaveOpen ==
    /\ pc = "traverse" /\ patient_directory # "" /\ files = <<>> /\ sequences = <<>>
    /\ compress => ~new_name_is_None
    /\ archives' = IF compress THEN make_archive(archives, new_name, target) ELSE archives
    /\ target' = IF compress THEN rmtree(target, new_name) ELSE target
    /\ jsonFile' = [exists |-> TRUE, complete |-> FALSE, text |-> <<>>]
    /\ saving' = TRUE
    /\ pc' = "dump"
    /\ op' = "open"
    /\ UNCHANGED <<mapping, source_directory, alive, call, ret, source_record, dataset,
                   tree, patients, sequences, files, patient_directory,
                   sequence_directory, run, durable>>
    /\ UNCHANGED <<stopped, compress, calls>>

\* With compress and no file processed in the patient folder, new_name is
\* None and os.path.join(self.target_directory, None) raises TypeError
\* before anything is archived or saved.
CompressRaises ==
    /\ pc = "traverse" /\ patient_directory # "" /\ files = <<>> /\ sequences = <<>>
    /\ compress /\ new_name_is_None
    /\ ret' = [ok |-> FALSE, value |-> "TypeError"]
    /\ pc' = "failed"
    /\ op' = "make_archive_raised"
    /\ UNCHANGED <<mapping, source_directory, jsonFile, alive, saving, call,
                   source_record, dataset, tree, target, patients, sequences, files,
                   patient_directory, sequence_directory, run, durable>>
    /\ UNCHANGED <<stopped, compress, archives, calls>>

\* json.dump writes the mapping, the file is closed and the outer loop goes on.
PatientSaveDump ==
    /\ pc = "dump"
    /\ jsonFile' = [exists |-> TRUE, complete |-> TRUE, text |-> JsonDump(mapping)]
    /\ saving' = FALSE
    /\ durable' = mapping
    /\ patient_directory' = ""
    /\ sequence_directory' = ""
    /\ pc' = "traverse"
    /\ op' = "save"
    /\ UNCHANGED <<mapping, source_directory, alive, call, ret, source_record, dataset,
                   tree, target, patients, sequences, files, run>>
    /\ UNCHANGED <<stopped, compress, archives, calls>>

\* patient_directory_yield is exhausted: anonymise() returns.
AnonymiseReturns ==
    /\ pc = "traverse" /\ patient_directory = "" /\ patients = <<>>
    /\ pc' = "done"
    /\ op' = "return"
    /\ UNCHANGED <<mapping, source_directory, jsonFile, alive, saving, call, ret,
                   source_record, dataset, tree, target, patients, sequences, files,
                   patient_directory, sequence_directory, run, durable>>
    /\ UNCHANGED <<stopped, compress, archives, calls>>

\* The process is interrupted; what it held in memory is gone.
Interrupt ==
    /\ pc \in {"start", "traverse", "dump"}
    /\ pc' = "crashed"
    /\ op' = "interrupt"
    /\ mapping' = <<>>
    /\ alive' = FALSE
    /\ saving' = FALSE
    /\ patients' = <<>>
    /\ sequences' = <<>>
    /\ files' = <<>>
    /\ patient_directory' = ""
    /\ sequence_directory' = ""
    /\ call' = NoCall
    /\ ret' = NoRet
    /\ UNCHANGED <<source_directory, jsonFile, source_record, dataset, tree, target,
                   run, durable>>
    /\ UNCHANGED <<stopped, compress, archives, calls>>

\* A new process constructs Anonymisation over the same directories and
\* calls anonymise(); the constructor raises when the ledger file cannot be
\* parsed.
Rerun ==
    /\ pc \in {"crashed", "failed", "done"}
    /\ run < MaxRuns
    /\ run' = run + 1
    /\ \E probes \in SeenPatterns :
          LET r == load_json_mapping(jsonFile, probes)
          IN  /\ mapping' = r.mapping
              /\ alive' = r.ok
              /\ pc' = IF r.ok THEN "start" ELSE "load_failed"
              /\ op' = IF ~r.ok THEN "load_failed"
                       ELSE IF r.read THEN "load" ELSE "load_nofile"
    /\ saving' = FALSE
    /\ patients' = <<>>
    /\ sequences' = <<>>
    /\ files' = <<>>
    /\ patient_directory' = ""
    /\ sequence_directory' = ""
    /\ call' = NoCall
    /\ ret' = NoRet
    /\ UNCHANGED <<source_directory, jsonFile, source_record, dataset, tree, target,
                   durable, compress, archives, calls>>
    /\ stopped' = pc

NextRun ==
    \/ StartAnonymise
    \/ NextPatient
    \/ NextSequence
    \/ FileAnonymised
    \/ FileReadFails
    \/ FileScrubRaises
    \/ FileWriteFails
    \/ PatientSaveOpen
    \/ PatientSaveDump
    \/ AnonymiseReturns
    \/ Interrupt
    \/ Rerun

SpecRun == InitRun /\ [][NextRun]_vars

\* ------------------------------------------- one call of anonymise(compress)
\* source/patA/T1/a.dcm and source/patA/T2/a.dcm, two studies of one patient
\* on two dates; source/patD/T1/notes.txt, a patient folder without a DICOM
\* file; source/patC/T1/{a.dcm, b.dcm}, a.dcm of the patient and the date of
\* patA/T1 once more, b.dcm a record without family name.
RepeatTree ==
    << Dir("patA",
           << Dir("T1",
                  << File("a.dcm", TRUE, DatasetOf(PN(JohnSmith), "P1", "A1", "20200101"))
                  >>),
              Dir("T2",
                  << File("a.dcm", TRUE, DatasetOf(PN(JohnSmith), "P1", "A2", "20200102"))
                  >>) >>),
       Dir("patD",
           << Dir("T1", << File("notes.txt", FALSE, NoDataset) >>) >>),
       Dir("patC",
           << Dir("T1",
                  << File("a.dcm", TRUE, DatasetOf(PN(JohnSmith), "P1", "A1", "20200101")),
                     File("b.dcm", TRUE, DatasetOf(PN(NoFamily), "P2", "A1", "20200101"))
                  >>) >>) >>

\* A fresh instance, no ledger file, an empty target; compress is the
\* argument of the call.
InitAnonymise ==
    /\ mapping = <<>>
    /\ source_directory \in Folders
    /\ jsonFile = NoFile
    /\ alive = TRUE
    /\ saving = FALSE
    /\ op = "init"
    /\ call = NoCall
    /\ ret = NoRet
    /\ source_record = NoDataset
    /\ dataset = NoDataset
    /\ tree = RepeatTree
    /\ target = {}
    /\ pc = "start"
    /\ patients = <<>>
    /\ sequences = <<>>
    /\ files = <<>>
    /\ patient_directory = ""
    /\ sequence_directory = ""
    /\ run = 1
    /\ durable = <<>>
    /\ stopped = ""
    /\ compress \in BOOLEAN
    /\ archives = {}
    /\ calls = 0

\* The steps anonymise() takes by itself.
StepAnonymise ==
    \/ StartAnonymise
    \/ NextPatient
    \/ NextSequence
    \/ FileReadFails
    \/ FileAnonymised
    \/ FileScrubRaises
    \/ FileWriteFails
    \/ PatientSaveOpen
    \/ CompressRaises
    \/ PatientSaveDump
    \/ AnonymiseReturns

NextAnonymise == StepAnonymise \/ Interrupt

SpecAnonymise == InitAnonymise /\ [][NextAnonymise]_vars

\* A process that is not interrupted goes on: anonymise() is sequential code
\* and takes its next step whenever it has one.
FairAnonymise == SpecAnonymise /\ WF_vars(StepAnonymise)

\* ------------------------------------------- the wrappers on their own
\* One call of listdir, retry_function, isdir or isfile on a scripted medium:
\* call holds the script, ret what the wrapper returned or raised.

\* What os.listdir can return for a folder of seven entries: all of them, a
\* listing cut to three, another three, nothing.
Listings ==
    { <<"a", "b", "c", "d", "e", "f", "g">>, <<"a", "b", "c">>, <<"e", "f", "g">>, <<>> }

\* What one retry_function(10, os.listdir)(directory) call of listdir does.
ListdirOutcomes ==
    { [ok |-> TRUE, value |-> l] : l \in Listings }
        \cup { [ok |-> FALSE, value |-> "OSError"] }

\* The scripts of the repeat_times attempts of listdir: the first MaxVaried
\* attempts vary freely, the later ones all do the same.
ListdirScripts ==
    { [i \in 1..ListdirRepeatTimes |-> IF i <= MaxVaried THEN head[i] ELSE rest] :
        head \in [1..MaxVaried -> ListdirOutcomes], rest \in ListdirOutcomes }

\* What one call of the wrapped function does.
RetryOutcomes ==
    { [ok |-> TRUE, value |-> "result"],
      [ok |-> FALSE, value |-> "OSError"],
      [ok |-> FALSE, value |-> "TimeoutError"] }

\* times and the script of the calls of the wrapped function, one call more
\* than the largest times.
RetryScripts ==
    { [times |-> n, attempts |-> a] :
        n \in 0..MaxTimes, a \in [1..(MaxTimes + 1) -> RetryOutcomes] }

\* What the probes of os.path.isdir / os.path.isfile answer, one probe more
\* than repeat_times: all true, none, exactly the k-th.
ProbeScripts ==
    { [i \in 1..(IsdirRepeatTimes + 1) |-> TRUE],
      [i \in 1..(IsdirRepeatTimes + 1) |-> FALSE] }
        \cup { [i \in 1..(IsdirRepeatTimes + 1) |-> i = k] :
                 k \in {1, 2, IsdirRepeatTimes, IsdirRepeatTimes + 1} }

\* The retry_function calls of anonymise() and save_json_mapping, and the
\* times each passes.
RetrySites == { "dcmread", "save_as", "json.dump" }
RetryTimes(site) ==
    CASE site = "dcmread" -> ReadRetryTimes
      [] site = "save_as" -> WriteRetryTimes
      [] site = "json.dump" -> DumpRetryTimes

\* What the calls of the function wrapped at a site do, one call more than
\* the times passed: all return, only the k-th does, none does.
SiteScripts(site) ==
    { [i \in 1..(RetryTimes(site) + 1) |-> [ok |-> TRUE, value |-> "result"]],
      [i \in 1..(RetryTimes(site) + 1) |-> [ok |-> FALSE, value |-> "OSError"]] }
        \cup { [i \in 1..(RetryTimes(site) + 1) |->
                   IF i = k THEN [ok |-> TRUE, value |-> "result"]
                   ELSE [ok |-> FALSE, value |-> "OSError"]] :
                 k \in {2, RetryTimes(site), RetryTimes(site) + 1} }

\* How many calls of os.listdir raise in a pass of listdir before the one
\* that gives the outcome of the pass: none, or all but the last.
RaisedFirst == { 0, ExceptionRepeatTimes - 1 }

WrapperCalls ==
    { [fn |-> "listdir", attempts |-> a, raised |-> r] :
        a \in ListdirScripts, r \in RaisedFirst }
        \cup UNION { { [fn |-> site, attempts |-> a] : a \in SiteScripts(site) } :
                       site \in RetrySites }
        \cup { [fn |-> "retry_function", times |-> r.times, attempts |-> r.attempts] :
                 r \in RetryScripts }
        \cup { [fn |-> f, probes |-> p] : f \in {"isdir", "isfile"}, p \in ProbeScripts }

InitWrappers ==
    /\ mapping = <<>>
    /\ source_directory \in Folders
    /\ jsonFile = NoFile
    /\ alive = TRUE
    /\ saving = FALSE
    /\ op = "call"
    /\ call \in WrapperCalls
    /\ ret = NoRet
    /\ source_record = NoDataset
    /\ dataset = NoDataset
    /\ tree = <<>>
    /\ target = {}
    /\ pc = "idle"
    /\ patients = <<>>
    /\ sequences = <<>>
    /\ files = <<>>
    /\ patient_directory = ""
    /\ sequence_directory = ""
    /\ run = 1
    /\ durable = <<>>
    /\ stopped = ""
    /\ compress = FALSE
    /\ archives = {}
    /\ calls = 0

\* In pass i of listdir, os.listdir raises call.raised times and then does
\* call.attempts[i], on every further call of the pass when that is to raise.
ListdirReturns ==
    /\ op = "call" /\ call.fn = "listdir"
    /\ LET tries == [i \in 1..ListdirRepeatTimes |->
                        [j \in 1..ExceptionRepeatTimes |->
                            IF j <= call.raised THEN [ok |-> FALSE, value |-> "OSError"]
                            ELSE call.attempts[i]]]
       IN  /\ ret' = [ok |-> TRUE, value |-> listdir(listdir_attempts(tries))]
           /\ calls' = listdir_calls(tries, 1)
    /\ op' = "listdir"
    /\ UNCHANGED <<mapping, source_directory, jsonFile, alive, saving, call,
                   source_record, dataset>>
    /\ UNCHANGED runVars

RetryFunctionReturns ==
    /\ op = "call" /\ call.fn = "retry_function"
    /\ retry_function(call.times, call.attempts).ok
    /\ ret' = retry_function(call.times, call.attempts)
    /\ calls' = retry_function_calls(call.times, call.attempts)
    /\ op' = "retry_function"
    /\ UNCHANGED <<mapping, source_directory, jsonFile, alive, saving, call,
                   source_record, dataset>>
    /\ UNCHANGED runVars

RetryFunctionRaises ==
    /\ op = "call" /\ call.fn = "retry_function"
    /\ ~retry_function(call.times, call.attempts).ok
    /\ ret' = retry_function(call.times, call.attempts)
    /\ calls' = retry_function_calls(call.times, call.attempts)
    /\ op' = "retry_function_raised"
    /\ UNCHANGED <<mapping, source_directory, jsonFile, alive, saving, call,
                   source_record, dataset>>
    /\ UNCHANGED runVars

IsdirReturns ==
    /\ op = "call" /\ call.fn = "isdir"
    /\ ret' = [ok |-> TRUE, value |-> isdir(TRUE, call.probes)]
    /\ calls' = isdir_probes(TRUE, call.probes, 1, FALSE)
    /\ op' = "isdir"
    /\ UNCHANGED <<mapping, source_directory, jsonFile, alive, saving, call,
                   source_record, dataset>>
    /\ UNCHANGED runVars

IsfileReturns ==
    /\ op = "call" /\ call.fn = "isfile"
    /\ ret' = [ok |-> TRUE, value |-> isfile(TRUE, call.probes)]
    /\ calls' = isfile_probes(TRUE, call.probes, 1, FALSE)
    /\ op' = "isfile"
    /\ UNCHANGED <<mapping, source_directory, jsonFile, alive, saving, call,
                   source_record, dataset>>
    /\ UNCHANGED runVars

\* The retry_function call of a site returns, or raises, as lines 587, 592
\* and 283 pass their times.
SiteReturns ==
    /\ op = "call" /\ call.fn \in RetrySites
    /\ retry_function(RetryTimes(call.fn), call.attempts).ok
    /\ ret' = retry_function(RetryTimes(call.fn), call.attempts)
    /\ calls' = retry_function_calls(RetryTimes(call.fn), call.attempts)
    /\ op' = call.fn
    /\ UNCHANGED <<mapping, source_directory, jsonFile, alive, saving, call,
                   source_record, dataset>>
    /\ UNCHANGED runVars

SiteRaises ==
    /\ op = "call" /\ call.fn \in RetrySites
    /\ ~retry_function(RetryTimes(call.fn), call.attempts).ok
    /\ ret' = retry_function(RetryTimes(call.fn), call.attempts)
    /\ calls' = retry_function_calls(RetryTimes(call.fn), call.attempts)
    /\ op' = call.fn \o "_raised"
    /\ UNCHANGED <<mapping, source_directory, jsonFile, alive, saving, call,
                   source_record, dataset>>
    /\ UNCHANGED runVars

NextWrappers ==
    \/ SiteReturns
    \/ SiteRaises
    \/ ListdirReturns
    \/ RetryFunctionReturns
    \/ RetryFunctionRaises
    \/ IsdirReturns
    \/ IsfileReturns

SpecWrappers == InitWrappers /\ [][NextWrappers]_vars

\* ------------------------------------------------ the constructor's load
\* The mappings a run can have saved: those reached from {} by at most n
\* calls of add_to_mapping.
RECURSIVE LedgersAfter(_)
LedgersAfter(n) ==
    IF n = 0 THEN { <<>> }
    ELSE LET before == LedgersAfter(n - 1)
         IN  before \cup { add_to_mapping(m, i).mapping : m \in before, i \in PatientInfos }

\* What can be at self.json_directory when the constructor runs: nothing, a
\* file a save was interrupted in, a file a save completed.
LedgerFiles ==
    { NoFile, [exists |-> TRUE, complete |-> FALSE, text |-> <<>>] }
        \cup { [exists |-> TRUE, complete |-> TRUE, text |-> JsonDump(m)] :
                 m \in LedgersAfter(MaxEncounters) }

\* __init__ has set self.mapping = {} and is about to call
\* load_json_mapping; call holds what the probes of os.path.isfile answer.
InitLoad ==
    /\ mapping = <<>>
    /\ source_directory \in Folders
    /\ jsonFile \in LedgerFiles
    /\ alive = FALSE
    /\ saving = FALSE
    /\ op = "new"
    /\ call \in ProbeScripts
    /\ ret = NoRet
    /\ source_record = NoDataset
    /\ dataset = NoDataset
    /\ tree = <<>>
    /\ target = {}
    /\ pc = "idle"
    /\ patients = <<>>
    /\ sequences = <<>>
    /\ files = <<>>
    /\ patient_directory = ""
    /\ sequence_directory = ""
    /\ run = 1
    /\ durable = <<>>
    /\ stopped = ""
    /\ compress = FALSE
    /\ archives = {}
    /\ calls = 0

\* load_json_mapping returns and the constructor completes.
LoadReturns ==
    /\ op = "new"
    /\ LET r == load_json_mapping(jsonFile, call)
       IN  /\ r.ok
           /\ mapping' = r.mapping
           /\ op' = IF r.read THEN "load" ELSE "load_nofile"
    /\ alive' = TRUE
    /\ UNCHANGED <<source_directory, jsonFile, saving, call, ret, source_record,
                   dataset>>
    /\ UNCHANGED runVars
    /\ UNCHANGED calls

\* json.load raises JSONDecodeError and no instance comes to exist.
LoadRaises ==
    /\ op = "new"
    /\ ~load_json_mapping(jsonFile, call).ok
    /\ op' = "load_failed"
    /\ UNCHANGED <<mapping, source_directory, jsonFile, alive, saving, call, ret,
                   source_record, dataset>>
    /\ UNCHANGED runVars
    /\ UNCHANGED calls

NextLoad == LoadReturns \/ LoadRaises

SpecLoad == InitLoad /\ [][NextLoad]_vars

\* ------------------------------------------------- what the claims speak of
IndexIn(m, id) == IF id \in Keys(m) THEN Entry(m, id).PatientIndex ELSE None

\* The ledger a load of the file as it is now would return.
Persisted == IF jsonFile.complete THEN JsonLoad(jsonFile.text) ELSE <<>>

\* How many positions of the entry of id hold the pair (accession, date).
CountIn(m, id, accession, date) ==
    IF id \notin Keys(m) THEN 0
    ELSE LET e == Entry(m, id)
         IN  Cardinality({ i \in 1..ZipLen(e.AccessionNumber, e.StudyDate) :
                             /\ e.AccessionNumber[i] = accession
                             /\ e.StudyDate[i] = date })

Parallel(e) ==
    /\ Len(e.PatientName) = Len(e.NewPatientName)
    /\ Len(e.PatientName) = Len(e.AccessionNumber)
    /\ Len(e.PatientName) = Len(e.StudyDate)
    /\ Len(e.PatientName) = Len(e.OriginalBaseFolder)

EmptyEntry == [PatientName |-> <<>>, NewPatientName |-> <<>>, AccessionNumber |-> <<>>,
               StudyDate |-> <<>>, OriginalBaseFolder |-> <<>>]

\* The initials a pseudonym starts with.
Initials(n) ==
    IF n.given # <<>> THEN Head(n.given) \o Head(n.family) ELSE Head(n.family)

\* C1: resolving the same record twice in a row returns the same pseudonym
\* both times, and the patient's entry then holds exactly one encounter of
\* that (accession, study date).
C1_Idempotent ==
    [][(op = "add_to_mapping" /\ op' = "add_to_mapping" /\ call' = call /\ ret.ok)
        => /\ ret' = ret
           /\ CountIn(mapping', call'.PatientID, call'.AccessionNumber,
                      call'.StudyDate) = 1]_vars

\* A record has been resolved and recorded, and resolving it again is possible.
C1_Witness ==
    /\ op = "add_to_mapping" /\ ret.ok
    /\ CountIn(mapping, call.PatientID, call.AccessionNumber, call.StudyDate) = 1
    /\ Encounters(mapping) < MaxEncounters

\* C2: no entry of the ledger holds the same (accession, study date) pair at
\* two positions, in memory or in the saved file.
C2_TripleAtMostOnce ==
    \A m \in { mapping, Persisted } : \A k \in 1..Len(m) :
        \A i, j \in 1..ZipLen(m[k].AccessionNumber, m[k].StudyDate) :
            (m[k].AccessionNumber[i] = m[k].AccessionNumber[j]
             /\ m[k].StudyDate[i] = m[k].StudyDate[j]) => i = j

\* A loaded ledger to which a second study of a known patient was added.
C2_Witness ==
    /\ op = "add_to_mapping" /\ ret.ok
    /\ Len(Persisted) > 0
    /\ Len(Entry(mapping, call.PatientID).StudyDate) = 2
    /\ Len(Entry(Persisted, Persisted[1].key).StudyDate) = 1

\* C3: a non-null index of a patient is the same after every add_to_mapping
\* call, is the one a save writes, and is the one a load of the file returns.
C3_IndexNeverChanges ==
    [][\A id \in PatientIds :
        /\ (op' \in {"add_to_mapping", "open", "save"} /\ IndexIn(mapping, id) # None)
              => IndexIn(mapping', id) = IndexIn(mapping, id)
        /\ (op' = "save" /\ IndexIn(mapping, id) # None)
              => IndexIn(Persisted', id) = IndexIn(mapping, id)
        /\ (op' = "load" /\ IndexIn(Persisted, id) # None)
              => IndexIn(mapping', id) = IndexIn(Persisted, id)]_vars

\* A new instance has loaded a ledger in which the second patient holds 2.
C3_Witness ==
    /\ op = "load"
    /\ \E id \in PatientIds : IndexIn(mapping, id) = 2

\* C4 as stated: the first distinct patient identifier resolved holds index
\* 0 and the second index 1.
C4_FirstIsZero ==
    /\ (Len(mapping) >= 1 /\ mapping[1].PatientIndex # None)
          => mapping[1].PatientIndex = 0
    /\ (Len(mapping) >= 2 /\ mapping[2].PatientIndex # None)
          => mapping[2].PatientIndex = 1

\* C4 amended: the index a call of add_to_mapping fixes is the number of
\* entries the ledger then holds, the patient's own entry included: 1 for
\* the first patient identifier when it is the only entry, 2 for the second
\* when there are two entries; never 0.
C4_IndexIsEntryCount ==
    [][op' = "add_to_mapping" =>
        \A k \in 1..Len(mapping') :
            (/\ mapping'[k].PatientIndex # None
             /\ (k > Len(mapping) \/ mapping[k].PatientIndex = None))
            => /\ mapping'[k].PatientIndex = Len(mapping')
               /\ mapping'[k].PatientIndex >= k
               /\ mapping'[k].PatientIndex >= 1]_vars

\* Two patients resolved one after the other hold 1 and 2.
C4_Witness ==
    /\ op = "add_to_mapping"
    /\ Len(mapping) = 2
    /\ mapping[1].PatientIndex = 1
    /\ mapping[2].PatientIndex = 2
    /\ Len(mapping[1].StudyDate) = 1 /\ Len(mapping[2].StudyDate) = 1

C6_StableAcrossRuns ==
    (alive /\ ~saving) =>
        \A info \in PatientInfos :
            LET id == info.PatientID
                r == add_to_mapping(mapping, info)
                e == Entry(Persisted, id)
            IN  (IndexIn(Persisted, id) # None) =>
                  /\ IndexIn(mapping, id) = IndexIn(Persisted, id)
                  /\ IndexIn(r.mapping, id) = IndexIn(Persisted, id)
                  /\ r.ok => /\ r.value = Initials(info.PatientName)
                                          \o ToString(IndexIn(Persisted, id))
                                          \o "_" \o info.StudyDate
                             /\ \A i \in 1..Len(e.StudyDate) :
                                   (e.PatientName[i] = PersonNameStr(info.PatientName)
                                    /\ e.StudyDate[i] = info.StudyDate)
                                   => e.NewPatientName[i] = r.value

\* A later run has just loaded a ledger of two patients, the second of which
\* was given index 2 by an earlier run.
C6_Witness ==
    /\ op = "load"
    /\ Len(mapping) = 2
    /\ mapping[2].PatientIndex = 2
    /\ Len(mapping[2].StudyDate) >= 1

\* C9: after every operation the five lists of every entry have one length,
\* and an add_to_mapping call either leaves an entry's lists alone or appends
\* to each of them the value of the record just resolved.
C9_ParallelLists ==
    [][/\ \A k \in 1..Len(mapping') : Parallel(mapping'[k])
       /\ op' = "add_to_mapping" =>
            \A k \in 1..Len(mapping') :
                LET new == mapping'[k]
                    old == IF k <= Len(mapping) THEN mapping[k] ELSE EmptyEntry
                IN  \/ /\ new.PatientName = old.PatientName
                       /\ new.NewPatientName = old.NewPatientName
                       /\ new.AccessionNumber = old.AccessionNumber
                       /\ new.StudyDate = old.StudyDate
                       /\ new.OriginalBaseFolder = old.OriginalBaseFolder
                    \/ /\ new.key = call'.PatientID /\ ret'.ok
                       /\ new.PatientName =
                              Append(old.PatientName, PersonNameStr(call'.PatientName))
                       /\ new.NewPatientName = Append(old.NewPatientName, ret'.value)
                       /\ new.AccessionNumber =
                              Append(old.AccessionNumber, call'.AccessionNumber)
                       /\ new.StudyDate = Append(old.StudyDate, call'.StudyDate)
                       /\ new.OriginalBaseFolder =
                              Append(old.OriginalBaseFolder, call'.OriginalBaseFolder)]_vars

\* An entry of two encounters next to an entry without any.
C9_Witness ==
    /\ op = "add_to_mapping"
    /\ \E k \in 1..Len(mapping) : Len(mapping[k].NewPatientName) = 2
    /\ \E k \in 1..Len(mapping) : Len(mapping[k].NewPatientName) = 0

\* C10 as stated: after anonymise_dicom returns no delete-list field is
\* left, every replace-table field holds its configured value and no private
\* field is left.
C10_ScrubComplete ==
    op = "anonymise_dicom" =>
        /\ DOMAIN dataset.std \cap delete_tags = {}
        /\ \A t \in DOMAIN replace_tags :
              t \in DOMAIN dataset.std /\ dataset.std[t] = replace_tags[t]
        /\ DOMAIN dataset.private = {}

\* C10 amended: as above, but the private fields whose deletion raises are
\* left in the record; every other private field is gone.
C10_ScrubCompleteButUndeletable ==
    op = "anonymise_dicom" =>
        /\ DOMAIN dataset.std \cap delete_tags = {}
        /\ \A t \in DOMAIN replace_tags :
              t \in DOMAIN dataset.std /\ dataset.std[t] = replace_tags[t]
        /\ DOMAIN dataset.private =
              { t \in DOMAIN source_record.private :
                    source_record.private[t] = "undeletable" }

\* The scrub returned for a record that had a delete-list field, lacked a
\* replace-table field and had a private field that was removed and one that
\* could not be.
C10_Witness ==
    /\ op = "anonymise_dicom"
    /\ DOMAIN source_record.std \cap delete_tags # {}
    /\ "PatientBirthDate" \notin DOMAIN source_record.std
    /\ source_record.private = [t \in Range(PrivateTags) |->
                                   IF t = PrivateTags[1] THEN "undeletable" ELSE "ok"]
    /\ DOMAIN dataset.private = { PrivateTags[1] }

\* The pseudonyms the ledger m holds for the triple of patient_info.
StoredPseudonyms(m, patient_info) ==
    IF patient_info.PatientID \notin Keys(m) THEN {}
    ELSE LET e == Entry(m, patient_info.PatientID)
         IN  { e.NewPatientName[i] : i \in
                 { j \in 1..Len(e.StudyDate) :
                     /\ e.AccessionNumber[j] = patient_info.AccessionNumber
                     /\ e.StudyDate[j] = patient_info.StudyDate } }

\* Every encounter of the ledger m2 is an encounter of the ledger m1.
Contains(m1, m2) ==
    \A k \in 1..Len(m2) : \A i \in 1..Len(m2[k].StudyDate) :
        CountIn(m1, m2[k].key, m2[k].AccessionNumber[i], m2[k].StudyDate[i]) >= 1

\* C7: when a run that loaded the persisted ledger processes again a file
\* that was written under the pseudonym the persisted ledger holds for its
\* triple, the ledger stays as it is, the file goes to the same path under
\* the same pseudonym, and the save that follows rewrites the same ledger.
C7_CrashResume ==
    [][/\ (/\ pc = "traverse" /\ op' = "save_as"
           /\ Persisted = durable
           /\ \E t \in target : /\ t.src = CurrentSource
                                /\ t.PatientName \in StoredPseudonyms(durable, call'))
          => /\ mapping' = mapping
             /\ target' = target
             /\ ret'.value \in StoredPseudonyms(durable, call')
       /\ (pc = "dump" /\ op' = "save" /\ mapping = durable)
          => /\ Persisted' = durable
             /\ durable' = durable]_vars

\* The second run has processed again a file of a patient the first run
\* completed and persisted, and the ledger is the persisted one.
C7_Witness ==
    /\ run = 2 /\ op = "save_as"
    /\ mapping = durable /\ Persisted = durable
    /\ ret.value \in StoredPseudonyms(durable, call)
    /\ \E t \in target : t.PatientName = ret.value /\ t.src = "patA/T1/b.dcm"

\* C8: whenever the process is interrupted, the ledger file the next run
\* loads holds every encounter the last completed save had written.
C8_InterruptKeepsCompleted ==
    pc = "crashed" => Contains(Persisted, durable)

\* C11: when anonymise_dicom returns, PatientName of the record is the
\* pseudonym add_to_mapping returned for the patient_info extracted from
\* that record, whether the record had a PatientName or not.
C11_IdentityIsPseudonym ==
    [][op' = "anonymise_dicom" =>
        LET k == extract_key_info(dataset, source_directory)
            a == add_to_mapping(mapping, k.patient_info)
        IN  /\ a.ok
            /\ ret'.value = a.value
            /\ dataset'.PatientName = Text(a.value)]_vars

\* The scrub returned for a record without PatientName: the name is the
\* pseudonym built on the sentinel Z^Z.
C11_Witness ==
    /\ op = "anonymise_dicom"
    /\ source_record.PatientName = Absent
    /\ dataset.PatientName = Text("ZZ1_20200101")
    /\ ret.value = "ZZ1_20200101"

\* C12: whether anonymise_dicom returns or raises, a standard field that is
\* neither in the replace-table nor in the delete-list is in the record
\* afterwards iff it was there before, with the value it had.
C12_OtherFieldsUnchanged ==
    [][op' \in {"anonymise_dicom", "anonymise_dicom_raised"} =>
        \A t \in (DOMAIN dataset.std \cup DOMAIN dataset'.std)
                    \ (DOMAIN replace_tags \cup delete_tags) :
            /\ t \in DOMAIN dataset.std
            /\ t \in DOMAIN dataset'.std
            /\ dataset'.std[t] = dataset.std[t]]_vars

\* The scrub returned for a record that held Modality next to the key
\* fields, and Modality, AccessionNumber and StudyDate are as they were.
C12_Witness ==
    /\ op = "anonymise_dicom"
    /\ "Modality" \in DOMAIN source_record.std
    /\ "Modality" \in DOMAIN dataset.std
    /\ dataset.std["Modality"] = source_record.std["Modality"]
    /\ dataset.std["StudyDate"] = source_record.std["StudyDate"]

Succeeded(attempts) == { i \in 1..ListdirRepeatTimes : attempts[i].ok }

\* C14: listdir returns the listing of the first attempt whose listing is
\* the longest among the attempts that returned one, and the empty list when
\* no attempt returned one.
C14_LargestListing ==
    op = "listdir" =>
        LET ok == Succeeded(call.attempts)
        IN  IF ok = {} THEN ret.value = <<>>
            ELSE \E i \in ok :
                    /\ ret.value = call.attempts[i].value
                    /\ \A j \in ok :
                          Len(call.attempts[j].value) <= Len(call.attempts[i].value)
                    /\ \A j \in ok :
                          j < i => Len(call.attempts[j].value) < Len(call.attempts[i].value)

\* The attempts listed 3, 3, 7, 3, ... entries and listdir returned the seven.
C14_Witness ==
    /\ op = "listdir"
    /\ \A i \in 1..ListdirRepeatTimes :
          /\ call.attempts[i].ok
          /\ Len(call.attempts[i].value) = IF i = 3 THEN 7 ELSE 3
    /\ Len(ret.value) = 7
    /\ ret.value = call.attempts[3].value

\* The calls of a script that return, among the first n.
Returning(attempts, n) == { i \in 1..n : attempts[i].ok }
First(S) == CHOOSE i \in S : \A j \in S : i <= j

\* C19 as stated: operation is executed once and, while it fails, executed
\* again up to n more times; the first result is returned, and when all of
\* these n + 1 executions fail the exception of the last one is raised.
C19_RetriesNTimes ==
    op \in {"retry_function", "retry_function_raised"} =>
        LET ok == Returning(call.attempts, call.times + 1)
        IN  IF ok # {} THEN ret = call.attempts[First(ok)]
            ELSE ret = [ok |-> FALSE, value |-> call.attempts[call.times + 1].value]

\* C19 amended: operation is executed at most n times in all (the first
\* execution and up to n - 1 retries); the first result is returned; when
\* all n executions fail the exception of the n-th is raised; with n = 0
\* operation is not executed and Exception('Retry Exception Failed.') is
\* raised.
C19_AtMostNExecutions ==
    op \in {"retry_function", "retry_function_raised"} =>
        LET ok == Returning(call.attempts, call.times)
        IN  IF ok # {} THEN ret = call.attempts[First(ok)]
            ELSE IF call.times = 0
            THEN ret = [ok |-> FALSE, value |-> "Retry Exception Failed."]
            ELSE ret = [ok |-> FALSE, value |-> call.attempts[call.times].value]

\* retry_function(3, operation) raised the TimeoutError of the third
\* execution, after an OSError of the first, although a fourth execution
\* would have returned.
C19_Witness ==
    /\ op = "retry_function_raised"
    /\ call.times = 3
    /\ call.attempts[1].value = "OSError"
    /\ call.attempts[3].value = "TimeoutError"
    /\ call.attempts[4].ok
    /\ ret = [ok |-> FALSE, value |-> "TimeoutError"]

\* C20: isdir and isfile return true iff one of the first repeat_times (40)
\* answers of the underlying check is true; answers after the 40th are never
\* asked for.
C20_AnyProbe ==
    /\ op = "isdir" =>
          (ret.value <=> \E i \in 1..IsdirRepeatTimes : call.probes[i])
    /\ op = "isfile" =>
          (ret.value <=> \E i \in 1..IsfileRepeatTimes : call.probes[i])

\* isdir returned true although only the last of its 40 probes answered true.
C20_Witness ==
    /\ op = "isdir"
    /\ \A i \in 1..IsdirRepeatTimes : call.probes[i] <=> (i = IsdirRepeatTimes)
    /\ ret.value = TRUE

\* The source paths of the files under the patient folder p.
SourcesOf(p) ==
    UNION { { p \o "/" \o s.name \o "/" \o s.entries[j].name : j \in 1..Len(s.entries) } :
              s \in Range(Child(tree, p).entries) }

\* The target files written from other patient folders than p.
OutputOfOthers(t, p) == { x \in t : x.src \notin SourcesOf(p) }

C16_SavedOncePerPatient ==
    [][/\ jsonFile' # jsonFile => op' \in {"open", "save"}
       /\ op' = "open" => /\ pc = "traverse" /\ patient_directory # ""
                          /\ sequences = <<>> /\ files = <<>>
                          /\ op \in {"patient", "sequence", "save_as"}
       /\ op' = "save" => /\ op = "open"
                          /\ Persisted' = mapping /\ mapping' = mapping
                          /\ patient_directory # "" /\ patient_directory' = ""
       /\ op' \in {"patient", "return"} => /\ patient_directory = ""
                                           /\ op \in {"anonymise", "save"}
       /\ op = "save" => op' # "open"]_vars

\* The save after the second patient folder has written both patients, the
\* four files of the two folders being in the target.
C16_Witness ==
    /\ op = "save" /\ run = 1
    /\ Len(Persisted) = 2
    /\ Cardinality(target) = 4
    /\ patients = <<>>

\* C17: the pseudonym add_to_mapping returns is the first character of the
\* given name, then the first character of the family name, then the decimal
\* index of the patient, "_" and the study date; without a given name it
\* starts with the first character of the family name.
C17_PseudonymRule ==
    (op = "add_to_mapping" /\ ret.ok) =>
        LET n == call.PatientName
            i == ToString(IndexIn(mapping, call.PatientID))
        IN  /\ IndexIn(mapping, call.PatientID) # None
            /\ n.given # <<>> =>
                  ret.value = n.given[1] \o n.family[1] \o i \o "_" \o call.StudyDate
            /\ n.given = <<>> =>
                  ret.value = n.family[1] \o i \o "_" \o call.StudyDate

\* Smith^John was resolved to JS1_20200101 and then the second patient,
\* Smith without a given name, to S2_20200102.
C17_Witness ==
    /\ op = "add_to_mapping" /\ ret.ok
    /\ call.PatientName.given = <<>>
    /\ ret.value = "S2_20200102"
    /\ Len(mapping) = 2
    /\ mapping[1].NewPatientName = <<"JS1_20200101">>

\* C18: in a run started after a run that a failure stopped, no file is
\* written whose encounter the persisted ledger of the completed patient
\* folders already holds.
C18_OnlyInterruptedReprocessed ==
    [][(stopped = "failed" /\ pc = "traverse" /\ op' = "save_as")
          => StoredPseudonyms(durable, call') = {}]_vars

\* C21: when the triple of the record is already in the ledger, the call
\* returns a pseudonym the ledger holds for that triple, whatever name the
\* record carries.
C21_ReturnsStoredPseudonym ==
    [][(op' = "add_to_mapping" /\ exists_in_mapping(mapping, call'))
          => /\ ret'.ok
             /\ ret'.value \in StoredPseudonyms(mapping, call')]_vars

\* C22: when the triple of the record is already in the ledger, the call
\* leaves the mapping as it was, whether it returns or raises.
C22_NoMutationWhenRecorded ==
    [][(op' = "add_to_mapping" /\ exists_in_mapping(mapping, call'))
          => mapping' = mapping]_vars

\* A recorded triple was resolved again under another name: the pseudonym
\* returned is not the one the ledger holds, so nothing was appended by
\* this call.
C22_Witness ==
    /\ op = "add_to_mapping" /\ ret.ok
    /\ exists_in_mapping(mapping, call)
    /\ ret.value \notin StoredPseudonyms(mapping, call)
    /\ CountIn(mapping, call.PatientID, call.AccessionNumber, call.StudyDate) = 1

\* C23: any two entries of the mapping, and of the saved ledger, whose
\* indices are not null hold different indices.
C23_IndicesDistinct ==
    \A m \in { mapping, Persisted } : \A j, k \in 1..Len(m) :
        (j # k /\ m[j].PatientIndex # None /\ m[k].PatientIndex # None)
            => m[j].PatientIndex # m[k].PatientIndex

\* C24: a call fixes the index of an entry only together with the first
\* encounter it appends to it; the index is then the candidate
\* get_patient_index returns, the number of entries of the mapping after
\* initialise_mapping_entry; an entry created by a call that raises stays
\* without index and without encounter.
C24_CandidateCommittedOnAppend ==
    [][op' = "add_to_mapping" =>
        LET id == call'.PatientID
            m1 == initialise_mapping_entry(mapping, id)
        IN  /\ \A k \in 1..Len(mapping') :
                  (k > Len(mapping) \/ mapping[k].PatientIndex # mapping'[k].PatientIndex)
                  => \/ /\ mapping'[k].PatientIndex = None
                        /\ mapping'[k].StudyDate = <<>>
                        /\ ~ret'.ok
                     \/ /\ mapping'[k].key = id /\ ret'.ok
                        /\ IndexIn(mapping, id) = None
                        /\ mapping'[k].PatientIndex = get_patient_index(m1, call')
                        /\ mapping'[k].PatientIndex = Len(m1)
                        /\ Len(m1) = Len(mapping')
                        /\ Len(mapping'[k].StudyDate) = 1
            /\ ~ret'.ok => IndexIn(mapping', id) = IndexIn(mapping, id)]_vars

\* The second patient was resolved after a failed call had left the first
\* without index: it holds index 2 and one encounter, the first none.
C24_Witness ==
    /\ op = "add_to_mapping" /\ ret.ok
    /\ Len(mapping) = 2
    /\ mapping[1].PatientIndex = None /\ mapping[1].StudyDate = <<>>
    /\ mapping[2].PatientIndex = 2 /\ Len(mapping[2].StudyDate) = 1

\* C27: a call that raises for a patient identifier the mapping does not
\* hold leaves the mapping as it was.
C27_FailedCallLeavesLedger ==
    [][(op' = "add_to_mapping" /\ ~ret'.ok /\ call'.PatientID \notin Keys(mapping))
          => mapping' = mapping]_vars

\* s is a prefix of t.
IsPrefix(s, t) == Len(s) <= Len(t) /\ \A i \in 1..Len(s) : s[i] = t[i]

\* C25: no step of a live instance (add_to_mapping, save_json_mapping)
\* removes or moves an entry of the mapping, and the five lists of every
\* entry only grow at their end.
C25_AppendOnly ==
    [][op' \in {"add_to_mapping", "open", "save"} =>
        /\ Len(mapping) <= Len(mapping')
        /\ \A k \in 1..Len(mapping) :
              /\ mapping'[k].key = mapping[k].key
              /\ IsPrefix(mapping[k].PatientName, mapping'[k].PatientName)
              /\ IsPrefix(mapping[k].NewPatientName, mapping'[k].NewPatientName)
              /\ IsPrefix(mapping[k].AccessionNumber, mapping'[k].AccessionNumber)
              /\ IsPrefix(mapping[k].StudyDate, mapping'[k].StudyDate)
              /\ IsPrefix(mapping[k].OriginalBaseFolder, mapping'[k].OriginalBaseFolder)]_vars

\* A second encounter was appended after the first one of the same patient.
C25_Witness ==
    /\ op = "add_to_mapping" /\ ret.ok
    /\ Len(mapping) = 1
    /\ mapping[1].StudyDate = <<"20200102", "20200101">>
    /\ mapping[1].NewPatientName[2] = ret.value

\* C26: a call for a record whose family name is empty raises and appends
\* no encounter: the lists of every entry are as before, those of an entry
\* the call created are empty.
C26_NoFamilyNameRaises ==
    [][(op' = "add_to_mapping" /\ call'.PatientName.family = <<>>) =>
        /\ ~ret'.ok
        /\ Encounters(mapping') = Encounters(mapping)
        /\ \A k \in 1..Len(mapping') :
              mapping'[k].NewPatientName =
                  IF k <= Len(mapping) THEN mapping[k].NewPatientName ELSE <<>>]_vars

\* The record '^John' of a patient who already has an encounter was
\* resolved: IndexError, and the encounter is still the only one.
C26_Witness ==
    /\ op = "add_to_mapping" /\ ~ret.ok
    /\ call.PatientName.family = <<>> /\ call.PatientName.given # <<>>
    /\ ret.value = "IndexError"
    /\ Len(Entry(mapping, call.PatientID).StudyDate) = 1

\* The (accession, study date) pairs at the positions of the entry of id.
PairsOf(m, id) ==
    IF id \notin Keys(m) THEN {}
    ELSE { <<Entry(m, id).AccessionNumber[i], Entry(m, id).StudyDate[i]>> :
             i \in 1..Len(Entry(m, id).StudyDate) }

\* C30: for every record, exists_in_mapping is true iff the pair of its
\* accession number and study date stands at one position of the entry of
\* its patient identifier.
C30_SamePosition ==
    \A info \in PatientInfos :
        exists_in_mapping(mapping, info)
            <=> <<info.AccessionNumber, info.StudyDate>> \in PairsOf(mapping, info.PatientID)

\* P1 has A1 on 20200101 and A2 on 20200102; A1 on 20200102 matches the
\* accession at one position and the date at the other, and is not found.
C30_Witness ==
    /\ op = "add_to_mapping"
    /\ "P1" \in Keys(mapping)
    /\ PairsOf(mapping, "P1") = { <<"A1", "20200101">>, <<"A2", "20200102">> }
    /\ \E info \in PatientInfos :
          /\ info.PatientID = "P1"
          /\ info.AccessionNumber = "A1" /\ info.StudyDate = "20200102"
          /\ ~exists_in_mapping(mapping, info)

\* C28: for a record without PatientName that holds the other key fields,
\* anonymise_dicom does not raise: the patient_info carries the name Z^Z and
\* the pseudonym returned is "ZZ", the index of the patient, "_" and the
\* study date of the record.
C28_SentinelName ==
    (/\ op \in {"anonymise_dicom", "anonymise_dicom_raised"}
     /\ source_record.PatientName = Absent
     /\ KeyTags \subseteq DOMAIN source_record.std)
    => /\ op = "anonymise_dicom" /\ ret.ok
       /\ call.PatientName = [family |-> <<"Z">>, given |-> <<"Z">>]
       /\ ret.value = "ZZ" \o ToString(IndexIn(mapping, call.PatientID))
                           \o "_" \o source_record.std["StudyDate"]
       /\ Entry(mapping, call.PatientID).PatientName = <<"Z^Z">>

\* A record without PatientName, with a private field, was resolved under
\* the sentinel and recorded in the ledger as Z^Z.
C28_Witness ==
    /\ op = "anonymise_dicom"
    /\ source_record.PatientName = Absent
    /\ DOMAIN source_record.private # {}
    /\ Len(mapping) = 1
    /\ mapping[1].PatientName = <<"Z^Z">>
    /\ mapping[1].NewPatientName = <<"ZZ1_20200101">>

\* C29 as stated: the load leaves the persisted mapping whenever a complete
\* ledger file is at the path, the empty mapping when no file is, and
\* raises only when a file is there that cannot be parsed.
C29_LoadsWheneverPresent ==
    op \in {"load", "load_nofile", "load_failed"} =>
        /\ (jsonFile.exists /\ jsonFile.complete)
              => (alive /\ mapping = JsonLoad(jsonFile.text))
        /\ ~jsonFile.exists => (alive /\ mapping = <<>>)
        /\ ~alive => (jsonFile.exists /\ ~jsonFile.complete)

\* One of the repeat_times probes of isfile answered true.
Seen(probes) == \E i \in 1..IsfileRepeatTimes : probes[i]

\* C29 amended: the load leaves the persisted mapping whenever one of the 40
\* probes of isfile sees the file; it leaves the empty mapping when none
\* does, whether no file is there or every probe missed the one that is;
\* it raises only when a file that was seen cannot be parsed.
C29_LoadsWheneverSeen ==
    op \in {"load", "load_nofile", "load_failed"} =>
        /\ (jsonFile.exists /\ Seen(call) /\ jsonFile.complete)
              => (op = "load" /\ alive /\ mapping = JsonLoad(jsonFile.text))
        /\ (~jsonFile.exists \/ ~Seen(call))
              => (op = "load_nofile" /\ alive /\ mapping = <<>>)
        /\ ~alive <=> (jsonFile.exists /\ Seen(call) /\ ~jsonFile.complete)

\* A ledger of two patients is at the path, none of the 40 probes saw it,
\* and the instance starts from the empty mapping.
C29_Witness ==
    /\ op = "load_nofile" /\ alive
    /\ jsonFile.exists /\ jsonFile.complete
    /\ Len(JsonLoad(jsonFile.text)) = 2
    /\ ~Seen(call)
    /\ mapping = <<>>

\* C31: the file anonymise() has just processed is in the target at
\* <pseudonym>/<sequence folder>_<file name>, the pseudonym being the one
\* anonymise_dicom returned for the record of that file and the sequence
\* folder the one the file was listed in.
C31_OutputLayout ==
    [][op' = "save_as" =>
        LET r == anonymise_dicom(mapping, CurrentFile.record, source_directory)
        IN  /\ ret'.value = r.value
            /\ \E t \in target' :
                  /\ t.path = r.value \o "/" \o sequence_directory \o "_" \o Head(files)
                  /\ t.PatientName = r.value
                  /\ t.src = patient_directory \o "/" \o sequence_directory
                                 \o "/" \o Head(files)
            /\ \A t \in target' \ target : t.src = CurrentSource]_vars

\* The file a.dcm of the second sequence folder of patA, a study of another
\* date, is in the target under the pseudonym of that date.
C31_Witness ==
    /\ op = "save_as"
    /\ sequence_directory = "T2"
    /\ \E t \in target : /\ t.path = "JS1_20200102/T2_a.dcm"
                         /\ t.src = "patA/T2/a.dcm"
    /\ \E t \in target : t.path = "JS1_20200101/T1_a.dcm"

\* C33: two entries of the mapping never hold the same pseudonym, whatever
\* the study dates of the two encounters.
C33_PseudonymsDistinct ==
    \A j, k \in 1..Len(mapping) :
        j # k => Range(mapping[j].NewPatientName) \cap Range(mapping[k].NewPatientName) = {}

\* C34: anonymise_dicom raises only for a missing key field or an empty
\* family name, never for a private field; when it returns, the private
\* fields left in the record are exactly those whose deletion raises.
C34_PrivateNeverAborts ==
    /\ op = "anonymise_dicom_raised"
          => /\ ret.value \in {"AttributeError", "IndexError"}
             /\ \/ ~(KeyTags \subseteq DOMAIN source_record.std)
                \/ source_record.PatientName.family = <<>>
    /\ op = "anonymise_dicom"
          => \A t \in Range(PrivateTags) :
                t \in DOMAIN dataset.private
                    <=> (t \in DOMAIN source_record.private
                         /\ source_record.private[t] = "undeletable")

\* The first private field could not be deleted, the second could not be
\* read: the scrub returned, the first is still there and the second is gone.
C34_Witness ==
    /\ op = "anonymise_dicom" /\ ret.ok
    /\ source_record.private = [t \in Range(PrivateTags) |->
                                   IF t = PrivateTags[1] THEN "undeletable"
                                   ELSE "unreadable"]
    /\ dataset.private = [t \in { PrivateTags[1] } |-> "undeletable"]

\* C32: a file is never written to a target path that holds the output of
\* another source file: anonymise() overwrites no anonymised file with the
\* output of a different patient folder, sequence folder or file.
C32_PathsInjective ==
    [][op' = "save_as" =>
        \A t \in target :
            t.path = TargetPath(ret'.value, sequence_directory, Head(files))
                => t.src = CurrentSource]_vars

\* C38: with compress, when a patient folder is finished and the ledger is
\* about to be saved, no file written from that patient folder is left
\* uncompressed in the target, and each of them is in an archive.
C38_AllOutputArchived ==
    [][(op' = "open" /\ compress) =>
        /\ \A t \in target' : t.src \notin SourcesOf(patient_directory)
        /\ \A t \in target :
              t.src \in SourcesOf(patient_directory)
                  => \E z \in archives' : t.path \in z.files]_vars

\* C39: when the loops over a patient folder end without a file processed,
\* the next step of anonymise() starts the save of the ledger, with the
\* mapping as it was, whatever compress is.
C39_EmptyPatientSaved ==
    [][(/\ pc = "traverse" /\ patient_directory # ""
        /\ files = <<>> /\ sequences = <<>>
        /\ new_name_is_None
        /\ op' # "interrupt")
          => (op' = "open" /\ pc' = "dump" /\ mapping' = mapping)]_vars

\* C35: one file is read with at most 50 calls of dcmread and written with
\* at most 50 calls of save_as, one listdir call makes at most 20 calls of
\* os.listdir, isdir and isfile probe at most 40 times, and a save calls
\* json.dump at most 20 times.
C35_RetryBudgets ==
    /\ op \in {"dcmread", "dcmread_raised"} => calls <= 50
    /\ op \in {"save_as", "save_as_raised"} => calls <= 50
    /\ op = "listdir" => calls <= 20
    /\ op \in {"isdir", "isfile"} => calls <= 40
    /\ op \in {"json.dump", "json.dump_raised"} => calls <= 20

\* C35 amended: as C35, the failure of a read or a write propagating after
\* exactly 50 calls and that of json.dump after exactly 20, but one listdir
\* call makes 20 listing attempts of up to 10 calls of os.listdir each:
\* between 20 and 200 calls, 20 when no call raises.
C35_BudgetsWithListingRetries ==
    /\ op \in {"dcmread", "dcmread_raised"} => calls <= 50
    /\ op \in {"save_as", "save_as_raised"} => calls <= 50
    /\ op \in {"dcmread_raised", "save_as_raised"} => calls = 50
    /\ op = "listdir" =>
          /\ 20 <= calls /\ calls <= 200
          /\ (call.raised = 0 /\ Succeeded(call.attempts) = 1..ListdirRepeatTimes)
                => calls = 20
    /\ op \in {"isdir", "isfile"} => calls <= 40
    /\ op \in {"json.dump", "json.dump_raised"} => calls <= 20
    /\ op = "json.dump_raised" => calls = 20

\* In each of its 20 attempts listdir called os.listdir ten times, the tenth
\* call returning the listing: 200 calls, and the listing was returned.
C35_Witness ==
    /\ op = "listdir"
    /\ call.raised = 9
    /\ Succeeded(call.attempts) = 1..ListdirRepeatTimes
    /\ calls = 200
    /\ Len(ret.value) = 7

\* C36: retry_function(n, operation) calls operation at least once and at
\* most n times, for every n >= 0; when it returns, it returns what the
\* first call that returned gave, and that call was the last one.
C36_AtLeastOnce ==
    op \in {"retry_function", "retry_function_raised"} =>
        /\ calls >= 1
        /\ calls <= call.times
        /\ op = "retry_function" =>
              /\ ret = call.attempts[calls]
              /\ \A i \in 1..(calls - 1) : ~call.attempts[i].ok

\* C36 amended: operation is called at most n times, at least once when
\* n >= 1 and never when n = 0, in which case retry_function raises
\* Exception('Retry Exception Failed.'); when it returns, it returns what the
\* first call that returned gave, and that call was the last one.
C36_AtLeastOnceWhenPositive ==
    op \in {"retry_function", "retry_function_raised"} =>
        /\ call.times >= 1 => calls >= 1
        /\ call.times = 0 =>
              /\ calls = 0
              /\ op = "retry_function_raised"
              /\ ret = [ok |-> FALSE, value |-> "Retry Exception Failed."]
        /\ calls <= call.times
        /\ op = "retry_function" =>
              /\ ret = call.attempts[calls]
              /\ call.attempts[calls].ok
              /\ \A i \in 1..(calls - 1) : ~call.attempts[i].ok
        /\ op = "retry_function_raised" => calls = call.times

\* retry_function(3, operation): the first call raised, the second returned
\* and the third, which would have returned too, was not made.
C36_Witness ==
    /\ op = "retry_function"
    /\ call.times = 3
    /\ ~call.attempts[1].ok /\ call.attempts[2].ok /\ call.attempts[3].ok
    /\ calls = 2
    /\ ret = call.attempts[2]

\* C37: listdir returns, never raises; when none of its attempts returned a
\* listing it returns the empty listing, from which patient_directory_yield
\* yields no folder, so that the loop of anonymise() has nothing to process;
\* among the attempts that returned a listing of the largest size it
\* returns the earliest.
C37_ListdirNeverRaises ==
    op = "listdir" =>
        LET ok == Succeeded(call.attempts)
            largest == { i \in ok : \A j \in ok :
                            Len(call.attempts[j].value) <= Len(call.attempts[i].value) }
        IN  /\ ret.ok
            /\ ok = {} => /\ ret.value = <<>>
                          /\ \A t \in SourceTrees \cup { RepeatTree } :
                                Select(t, ret.value, "dir") = <<>>
            /\ ok # {} => ret.value = call.attempts[First(largest)].value

\* Every call of os.listdir raised, 200 in all, and listdir returned the
\* empty listing.
C37_Witness ==
    /\ op = "listdir"
    /\ Succeeded(call.attempts) = {}
    /\ calls = 200
    /\ ret = [ok |-> TRUE, value |-> <<>>]

\* C40: every call of anonymise() comes to an end: it returns after the last
\* patient folder, or an exception leaves it, or the process is interrupted.
C40_Terminates == <>(pc \in {"done", "failed", "crashed"})

\* anonymise() returned after it listed, processed and saved patA and patD.
C40_Witness ==
    /\ pc = "done" /\ op = "return"
    /\ ~compress
    /\ Cardinality(target) = 2
    /\ Len(durable) = 1
    /\ patients = <<>>

====
